---- MODULE Spec2Model ----
(***************************************************************************)
(* Cryvex wallet dashboard: the Transaction Normalizer                     *)
(* (SolanaConnectionManager.processTransaction / getTransactions), the     *)
(* Trade Classifier (TransactionAnalyzer) and the page load of             *)
(* WalletAnalyzer (fetchWalletData).                                       *)
(*                                                                         *)
(* JavaScript values are modelled as follows.                              *)
(*   - strings are TLA+ strings; includes / toLowerCase / JSON.stringify   *)
(*     are computed character by character;                                *)
(*   - null is NullValue, an absent property is simply not in the DOMAIN   *)
(*     of the record (text and number properties) or a list of kind        *)
(*     "undefined" (list properties);                                      *)
(*   - a thrown exception is the value Threw;                              *)
(*   - a non-integer number is an exact fraction [num, den] in lowest      *)
(*     terms (lamports / 1e9).  The sampled amounts have no decimal        *)
(*     expansion on which a double and the exact fraction compare or       *)
(*     round differently.                                                  *)
(***************************************************************************)
EXTENDS Integers, Sequences, FiniteSets, TLC

VARIABLES
    \* ---- pure-function harness (SpecNorm, SpecTrade)
    tx,             \* the raw record handed to the function under test
    normOut,        \* processTransaction(tx, Wallet)
    feedOut,        \* getTransactions over <<tx, Companion>>
    tradeOut,       \* isTradeTransaction(tx)
    classOut,       \* classifyTradeType(tx)
    valueOut,       \* calculateTradeValue(tx)
    \* ---- analyzeBatch harness (SpecBatch)
    batch,          \* the list handed to analyzeBatch
    batchOut,       \* what analyzeBatch(batch) resolved to
    \* ---- PriceManager (SpecPrice)
    priceCache,     \* cache.get('solana'), NullValue when absent
    clock,          \* Date.now()
    priceOut,       \* what the last getSolanaPrice() resolved to
    providers,      \* which endpoints answered during that call
    contacted,      \* the requests that call issued, in order: endpoint and outcome
    \* ---- overlapping page loads (SpecRace)
    loads,          \* the fetchWalletData calls started so far: position and locals
    \* ---- Logger (SpecLog, SpecRedact)
    logs,           \* Logger.logs
    calls,          \* how many times log() has run
    clears,         \* how many times clearLogs() has run
    context,        \* the caller's data object, passed to every log() call
    \* ---- Home page cards (SpecHome)
    cryptoPrices,   \* Home's cryptoPrices state
    priceFetches,   \* fetchPrices calls awaiting their response
    analysisCalls,  \* generateAnalysis calls awaiting their response, per symbol
    \* ---- page load (Spec): WalletAnalyzer component state
    pc,             \* position of fetchWalletData
    address,        \* useParams().address
    loading, error, solBalance, solPrice, solChange, tokens,
    transactions, portfolioValue, portfolioChange,
    activityAnalysis, analyzingTransactions,
    \* ---- page load: what the collaborators delivered / were handed
    rawTxs,         \* the list heliusAPI.getTransactionHistory returned
    analyzed,       \* the list handed to analyzeBatch
    requests,       \* the external requests issued so far, in order
    adapterOutcome  \* how openai.chat.completions.create settled ("none": not yet)

funVars == <<normOut, feedOut, tradeOut, classOut, valueOut>>
batchVars == <<batch, batchOut>>
priceVars == <<priceCache, clock, priceOut, providers, contacted>>
loggerVars == <<logs, calls, clears, context>>
homeVars == <<cryptoPrices, priceFetches, analysisCalls>>
otherVars == <<loads, loggerVars, homeVars>>
harnessVars == <<tx, funVars, batchVars, priceVars, otherVars>>
componentVars == <<pc, address, loading, error, solBalance, solPrice, solChange,
              tokens, transactions, portfolioValue, portfolioChange,
              activityAnalysis, analyzingTransactions, rawTxs, analyzed,
              requests>>
pageVars == <<componentVars, adapterOutcome>>
vars == <<harnessVars, pageVars>>

----------------------------------------------------------------------------
(* JavaScript values *)

NullValue == [null |-> TRUE]
Threw     == [threw |-> TRUE]
Pending   == [pending |-> TRUE]

IsNull(v) == DOMAIN v = {"null"}
Has(obj, key) == key \in DOMAIN obj

\* a property that holds a text or a number; "" stands for undefined, which
\* every use below treats like the empty string (|| and ?. fall through)
Text(obj, key) == IF Has(obj, key) THEN obj[key] ELSE ""
Num(obj, key)  == IF Has(obj, key) THEN obj[key] ELSE 0

UndefinedList == [kind |-> "undefined", items |-> <<>>]
EmptyObject   == [kind |-> "object", items |-> <<>>]      \* {}
ArrayLike     == [kind |-> "arraylike", items |-> <<>>]   \* {length: 1}
Array(s)      == [kind |-> "array", items |-> s]

List(obj, key) == IF Has(obj, key) THEN obj[key] ELSE UndefinedList

\* x.length, with undefined for a value that has none (0 here: every use
\* compares it with > 0, and undefined > 0 is false)
Length(l) ==
    CASE l.kind = "array"     -> Len(l.items)
      [] l.kind = "arraylike" -> 1
      [] OTHER                -> 0

\* l.reduce / l.some exist only on an array
IsArray(l) == l.kind = "array"

----------------------------------------------------------------------------
(* exact fractions *)

Abs(n) == IF n < 0 THEN -n ELSE n

RECURSIVE GCD(_, _)
GCD(a, b) == IF b = 0 THEN a ELSE GCD(b, a % b)

Rat(n, d) == LET g == GCD(Abs(n), d) IN [num |-> n \div g, den |-> d \div g]
RatInt(n) == [num |-> n, den |-> 1]
RatLt(a, b) == a.num * b.den < b.num * a.den
RatAdd(a, b) == Rat(a.num * b.den + b.num * a.den, a.den * b.den)
RatMul(a, b) == Rat(a.num * b.num, a.den * b.den)
RatZero == RatInt(0)

----------------------------------------------------------------------------
(* strings *)

Includes(s, p) ==
    \E i \in 0..(Len(s) - Len(p)) : SubSeq(s, i + 1, i + Len(p)) = p

\* the characters String.prototype.toLowerCase changes (ASCII texts)
LowerMap ==
    ("A" :> "a") @@ ("B" :> "b") @@ ("C" :> "c") @@ ("D" :> "d") @@ ("E"
    :> "e") @@ ("F" :> "f") @@ ("G" :> "g") @@ ("H" :> "h") @@ ("I" :>
    "i") @@ ("J" :> "j") @@ ("K" :> "k") @@ ("L" :> "l") @@ ("M" :> "m")
    @@ ("N" :> "n") @@ ("O" :> "o") @@ ("P" :> "p") @@ ("Q" :> "q") @@
    ("R" :> "r") @@ ("S" :> "s") @@ ("T" :> "t") @@ ("U" :> "u") @@ ("V"
    :> "v") @@ ("W" :> "w") @@ ("X" :> "x") @@ ("Y" :> "y") @@ ("Z" :>
    "z")

LowerChar(c) == IF c \in DOMAIN LowerMap THEN LowerMap[c] ELSE c

RECURSIVE ToLowerCase(_)
\* every character mapped, the two halves of the text in turn
ToLowerCase(s) ==
    IF Len(s) = 0 THEN ""
    ELSE IF Len(s) = 1 THEN LowerChar(s)
    ELSE LET h == Len(s) \div 2
         IN ToLowerCase(SubSeq(s, 1, h)) \o ToLowerCase(SubSeq(s, h + 1, Len(s)))

Quote(s) == "\"" \o s \o "\""

Pad3(n) == IF n < 10 THEN "00" \o ToString(n)
           ELSE IF n < 100 THEN "0" \o ToString(n)
           ELSE ToString(n)

\* Number.prototype.toFixed(3): the nearest multiple of 0.001, the larger
\* one on a tie, the sign kept
ToFixed3(a) ==
    LET milli == (2 * Abs(a.num) * 1000 + a.den) \div (2 * a.den)
    IN (IF a.num < 0 THEN "-" ELSE "")
       \o ToString(milli \div 1000) \o "." \o Pad3(milli % 1000)

\* `${n}` for a number that is an integer
NumberToString(a) == ToString(a.num)

RECURSIVE Join(_)
\* the members of an array or object literal, comma separated
Join(strs) ==
    IF Len(strs) = 0 THEN ""
    ELSE IF Len(strs) = 1 THEN strs[1]
    ELSE strs[1] \o "," \o Join(Tail(strs))

RECURSIVE StripZeros(_)
StripZeros(s) ==
    IF Len(s) > 0 /\ SubSeq(s, Len(s), Len(s)) = "0"
    THEN StripZeros(SubSeq(s, 1, Len(s) - 1))
    ELSE s

RECURSIVE PadLeft(_, _)
PadLeft(s, n) == IF Len(s) >= n THEN s ELSE PadLeft("0" \o s, n)

\* Number::toString of a fraction of at most nine decimals, in the range
\* where JavaScript prints no exponent
DecimalString(a) ==
    IF a.den = 1 THEN ToString(a.num)
    ELSE LET nano == Abs(a.num) * (1000000000 \div a.den)
             frac == StripZeros(PadLeft(ToString(nano % 1000000000), 9))
         IN (IF a.num < 0 THEN "-" ELSE "")
            \o ToString(nano \div 1000000000) \o "." \o frac

Member(key, value) == Quote(key) \o ":" \o value

\* JSON.stringify leaves out a property whose value is undefined
TextMember(obj, key) ==
    IF Has(obj, key) THEN Member(key, Quote(obj[key])) ELSE ""
NumMember(obj, key) ==
    IF Has(obj, key) THEN Member(key, ToString(obj[key])) ELSE ""

Object(members) ==
    "{" \o Join(SelectSeq(members, LAMBDA m : m # "")) \o "}"

StringifyNativeTransfer(t) ==
    IF IsNull(t) THEN "null"
    ELSE Object(<<TextMember(t, "fromUserAccount"),
                  TextMember(t, "toUserAccount"),
                  NumMember(t, "amount")>>)

StringifyTokenTransfer(t) ==
    IF IsNull(t) THEN "null"
    ELSE Object(<<TextMember(t, "fromUserAccount"),
                  TextMember(t, "toUserAccount"),
                  TextMember(t, "mint"),
                  NumMember(t, "amount")>>)

StringifyTokenChange(c) ==
    IF IsNull(c) THEN "null"
    ELSE Object(<<TextMember(c, "mint"), NumMember(c, "amount")>>)

StringifyItems(l, strs) ==
    CASE l.kind = "array"     -> "[" \o Join(strs) \o "]"
      [] l.kind = "arraylike" -> "{\"length\":1}"
      [] OTHER                -> "{}"

ListMember(obj, key, strs) ==
    IF List(obj, key).kind = "undefined" THEN ""
    ELSE Member(key, StringifyItems(obj[key], strs))

StringifyAccount(a) ==
    IF IsNull(a) THEN "null"
    ELSE Object(<<TextMember(a, "account"),
                  NumMember(a, "nativeBalanceChange"),
                  ListMember(a, "tokenBalanceChanges",
                      [i \in 1..Len(List(a, "tokenBalanceChanges").items) |->
                          StringifyTokenChange(a.tokenBalanceChanges.items[i])])>>)

\* JSON.stringify of a Helius record (part_003, HeliusTransaction)
StringifyRaw(t) ==
    Object(<<TextMember(t, "signature"),
             TextMember(t, "type"),
             TextMember(t, "source"),
             NumMember(t, "timestamp"),
             NumMember(t, "fee"),
             ListMember(t, "nativeTransfers",
                 [i \in 1..Len(List(t, "nativeTransfers").items) |->
                     StringifyNativeTransfer(t.nativeTransfers.items[i])]),
             ListMember(t, "tokenTransfers",
                 [i \in 1..Len(List(t, "tokenTransfers").items) |->
                     StringifyTokenTransfer(t.tokenTransfers.items[i])]),
             ListMember(t, "accountData",
                 [i \in 1..Len(List(t, "accountData").items) |->
                     StringifyAccount(t.accountData.items[i])])>>)

\* JSON.stringify of a ProcessedTransaction (solana.ts, lines 17-26)
StringifyProcessed(p) ==
    Object(<<Member("signature", Quote(p.signature)),
             Member("type", Quote(p.type)),
             Member("amount", DecimalString(p.amount)),
             Member("timestamp", ToString(p.timestamp)),
             Member("status", Quote(p.status)),
             Member("tokenSymbol", Quote(p.tokenSymbol)),
             Member("fee", ToString(p.fee)),
             Member("description", Quote(p.description))>>)

IsProcessed(obj) == Has(obj, "tokenSymbol")

\* a record holding a BigInt or a reference cycle cannot be serialized
Unserializable(obj) == Has(obj, "cycle")

\* JSON.stringify(tx) throws a TypeError on such a record
StringifyThrows(obj) == Unserializable(obj)

\* JSON.stringify(tx), for a record it can serialize
JSONStringify(obj) ==
    IF IsNull(obj) THEN "null"
    ELSE IF IsProcessed(obj) THEN StringifyProcessed(obj)
    ELSE StringifyRaw(obj)

----------------------------------------------------------------------------
(* Transaction Normalizer: SolanaConnectionManager.processTransaction *)

LAMPORTS_PER_SOL == 1000000000

\* MIN_SOL_AMOUNT = 0.001
MIN_SOL_AMOUNT == Rat(1, 1000)

\* reading a property of l[0] throws when l[0] is undefined or null
FirstItemThrows(l) ==
    Length(l) > 0 /\ (~IsArray(l) \/ IsNull(l.items[1]))

\* what the body of the try block throws on, in the order it runs
ProcessThrows(t) ==
    \/ IsNull(t)
    \/ FirstItemThrows(List(t, "nativeTransfers"))
    \/ FirstItemThrows(List(t, "tokenTransfers"))
    \/ StringifyThrows(t)

\* lines 56-68 reading the last native transfer instead of the first
AfterNativeLast(t, walletAddress, st) ==
    IF Length(List(t, "nativeTransfers")) > 0
    THEN LET transfer == t.nativeTransfers.items[Len(t.nativeTransfers.items)]
             amount == Rat(transfer.amount, LAMPORTS_PER_SOL)
         IN IF transfer.fromUserAccount = walletAddress
            THEN [st EXCEPT !.amount = amount, !.type = "Send SOL",
                     !.description = "Sent " \o ToFixed3(amount) \o " SOL"]
            ELSE IF transfer.toUserAccount = walletAddress
            THEN [st EXCEPT !.amount = amount, !.type = "Receive SOL",
                     !.description = "Received " \o ToFixed3(amount) \o " SOL"]
            ELSE [st EXCEPT !.amount = amount]
    ELSE st

\* lines 56-68: the first native transfer
AfterNative(t, walletAddress, st) ==
    IF Length(List(t, "nativeTransfers")) > 0
    THEN LET transfer == t.nativeTransfers.items[1]
             amount == Rat(transfer.amount, LAMPORTS_PER_SOL)
         IN IF transfer.fromUserAccount = walletAddress
            THEN [st EXCEPT !.amount = amount, !.type = "Send SOL",
                     !.description = "Sent " \o ToFixed3(amount) \o " SOL"]
            ELSE IF transfer.toUserAccount = walletAddress
            THEN [st EXCEPT !.amount = amount, !.type = "Receive SOL",
                     !.description = "Received " \o ToFixed3(amount) \o " SOL"]
            ELSE [st EXCEPT !.amount = amount]
    ELSE st

\* lines 70-83: the first token transfer
AfterToken(t, walletAddress, st) ==
    IF Length(List(t, "tokenTransfers")) > 0
    THEN LET transfer == t.tokenTransfers.items[1]
             amount == RatInt(transfer.amount)
             sym == "Token"
         IN IF transfer.fromUserAccount = walletAddress
            THEN [st EXCEPT !.amount = amount, !.tokenSymbol = sym,
                     !.type = "Send Token",
                     !.description = "Sent " \o NumberToString(amount)
                                        \o " " \o sym]
            ELSE IF transfer.toUserAccount = walletAddress
            THEN [st EXCEPT !.amount = amount, !.tokenSymbol = sym,
                     !.type = "Receive Token",
                     !.description = "Received " \o NumberToString(amount)
                                        \o " " \o sym]
            ELSE [st EXCEPT !.amount = amount, !.tokenSymbol = sym]
    ELSE st

\* the keywords of line 87
SwapKeywords == {"swap", "jupiter", "orca"}

\* line 86 without toLowerCase()
HasSwapKeywordCaseSensitive(t) ==
    \E k \in SwapKeywords : Includes(JSONStringify(t), k)

HasSwapKeyword(t) ==
    LET txString == ToLowerCase(JSONStringify(t))
    IN \E k \in SwapKeywords : Includes(txString, k)

\* lines 85-90: the swap override
AfterSwap(t, st) ==
    IF HasSwapKeyword(t)
    THEN [st EXCEPT !.type = "Swap", !.description = "Token Swap"]
    ELSE st

\* lines 97-100 alone: the zero filter without the dust filter
DroppedZeroOnly(st) == st.amount = RatZero

\* lines 92-100: the two filters
Dropped(st) ==
    \/ st.tokenSymbol = "SOL" /\ RatLt(st.amount, MIN_SOL_AMOUNT)
    \/ st.amount = RatZero

\* lines 51-111: the body of the try block, for a record it does not throw on
ProcessBody(t, walletAddress, now) ==
    LET st0 == [type |-> IF Text(t, "type") # "" THEN t.type ELSE "Unknown",
                amount |-> RatZero,
                tokenSymbol |-> "SOL",
                description |-> ""]
        st == AfterSwap(t, AfterToken(t, walletAddress,
                            AfterNative(t, walletAddress, st0)))
    IN IF Dropped(st) THEN NullValue
       ELSE [signature |-> Text(t, "signature"),
             type |-> st.type,
             amount |-> st.amount,
             timestamp |-> IF Num(t, "timestamp") # 0 THEN t.timestamp
                           ELSE now,
             status |-> "success",
             tokenSymbol |-> st.tokenSymbol,
             fee |-> Num(t, "fee"),
             description |-> st.description]

\* processTransaction without its catch block: the exception escapes
ProcessTransactionNoCatch(t, walletAddress, now) ==
    IF ProcessThrows(t) THEN Threw
    ELSE ProcessBody(t, walletAddress, now)

\* processTransaction(tx, walletAddress), with Date.now() = now; the catch
\* block logs and returns null
ProcessTransaction(t, walletAddress, now) ==
    IF ProcessThrows(t) THEN NullValue
    ELSE ProcessBody(t, walletAddress, now)

RECURSIVE InsertDesc(_, _)
\* place p after every record the comparator b.timestamp - a.timestamp does
\* not put behind it (Array.prototype.sort is stable)
InsertDesc(sorted, p) ==
    IF Len(sorted) = 0 THEN <<p>>
    ELSE IF Head(sorted).timestamp >= p.timestamp
    THEN <<Head(sorted)>> \o InsertDesc(Tail(sorted), p)
    ELSE <<p>> \o sorted

RECURSIVE SortDesc(_)
\* .sort((a, b) => b.timestamp - a.timestamp)
SortDesc(s) ==
    IF Len(s) = 0 THEN <<>>
    ELSE InsertDesc(SortDesc(SubSeq(s, 1, Len(s) - 1)), s[Len(s)])

\* getTransactions without the sort of line 261
GetTransactionsUnsorted(history, addr, now) ==
    IF ~history.ok THEN Threw
    ELSE LET mapped == [i \in 1..Len(history.txs) |->
                           ProcessTransaction(history.txs[i], addr, now)]
         IN [value |-> SelectSeq(mapped, LAMBDA m : m # NullValue)]

\* getTransactions(address): history is what getTransactionHistory gave,
\* [ok |-> FALSE] when it threw.  Threw stands for the rethrown
\* Error('Failed to fetch transactions').
GetTransactions(history, addr, now) ==
    IF ~history.ok THEN Threw
    ELSE LET mapped == [i \in 1..Len(history.txs) |->
                           ProcessTransaction(history.txs[i], addr, now)]
         IN IF \E i \in 1..Len(mapped) : mapped[i] = Threw THEN Threw
            ELSE [value |-> SortDesc(SelectSeq(mapped,
                                LAMBDA m : m # NullValue))]

----------------------------------------------------------------------------
(* Trade Classifier: TransactionAnalyzer *)

True      == [bool |-> TRUE]
False     == [bool |-> FALSE]
Undefined == [undefined |-> TRUE]
Truthy(v) == v = True

\* tradePatterns, lines 313-326
TradePatterns ==
    {"swap", "trade", "exchange", "jupiter", "orca", "raydium", "serum",
     "dex", "amm", "liquidity", "pool", "market"}

\* tx.type?.toLowerCase() || ''
LowerType(t) == ToLowerCase(Text(t, "type"))

\* lines 329-331
HasTradePattern(t) ==
    LET type == LowerType(t)
        description == ToLowerCase(JSONStringify(t))
    IN \E pattern \in TradePatterns :
          Includes(type, pattern) \/ Includes(description, pattern)

\* lines 334-337
HasTransfers(t) ==
    \/ Length(List(t, "nativeTransfers")) > 0
    \/ Length(List(t, "tokenTransfers")) > 0

\* the callback of line 340-342 on one accountData entry; an absent
\* nativeBalanceChange is undefined, and undefined !== 0
AccountChanged(a) ==
    \/ ~Has(a, "nativeBalanceChange")
    \/ a.nativeBalanceChange # 0
    \/ Length(List(a, "tokenBalanceChanges")) > 0

\* tx.accountData?.some(...) throws on a value without .some, and on a null
\* entry that no earlier entry stopped the scan before
SomeThrows(l) ==
    \/ l.kind \in {"object", "arraylike"}
    \/ /\ IsArray(l)
       /\ \E i \in 1..Len(l.items) :
             /\ IsNull(l.items[i])
             /\ \A j \in 1..(i - 1) : ~AccountChanged(l.items[j])

HasBalanceChanges(t) ==
    LET l == List(t, "accountData")
    IN IF l.kind = "undefined" THEN Undefined
       ELSE IF \E i \in 1..Len(l.items) : AccountChanged(l.items[i])
       THEN True ELSE False

IsTradeThrows(t) ==
    ~IsNull(t) /\ (StringifyThrows(t) \/ SomeThrows(List(t, "accountData")))

\* isTradeTransaction(tx): True, False, Undefined (what && yields on an
\* absent accountData) or Threw
IsTradeTransaction(t) ==
    IF IsNull(t) THEN False
    ELSE IF IsTradeThrows(t) THEN Threw
    ELSE IF HasTradePattern(t) THEN True
    ELSE IF ~HasTransfers(t) THEN False
    ELSE HasBalanceChanges(t)

RECURSIVE SumOut(_, _)
\* the reduce of lines 359-365 and 372-378: amounts of the transfers whose
\* source is tx.source
SumOut(items, source) ==
    IF Len(items) = 0 THEN 0
    ELSE (IF Text(Head(items), "fromUserAccount") = source
          THEN Head(items).amount ELSE 0) + SumOut(Tail(items), source)

\* l.reduce(...) throws on a value without .reduce and on a null entry
ReduceThrows(l) ==
    Length(l) > 0 /\ (~IsArray(l) \/ \E i \in 1..Len(l.items) : IsNull(l.items[i]))

ClassifyThrows(t) ==
    /\ ~IsNull(t)
    /\ \/ StringifyThrows(t)
       \/ LET type == LowerType(t)
              hinted == \E h \in {"buy", "swap_in", "sell", "swap_out"} :
                            Includes(type, h)
              nat == List(t, "nativeTransfers")
          IN /\ ~hinted
             /\ \/ ReduceThrows(nat)
                \/ /\ ~(Length(nat) > 0 /\ SumOut(nat.items, Text(t, "source")) > 0)
                   /\ ReduceThrows(List(t, "tokenTransfers"))

\* classifyTradeType with the token transfers inspected before the native
\* transfers
ClassifyBodyTokenFirst(t) ==
    LET type == LowerType(t)
        description == ToLowerCase(JSONStringify(t))
        nat == List(t, "nativeTransfers")
        tok == List(t, "tokenTransfers")
    IN IF Includes(type, "buy") \/ Includes(type, "swap_in") THEN "buy"
       ELSE IF Includes(type, "sell") \/ Includes(type, "swap_out") THEN "sell"
       ELSE IF Length(tok) > 0 /\ SumOut(tok.items, Text(t, "source")) > 0
       THEN "sell"
       ELSE IF Length(nat) > 0 /\ SumOut(nat.items, Text(t, "source")) > 0
       THEN "buy"
       ELSE IF \/ Includes(description, "swap_exact_tokens_for_tokens")
               \/ Includes(description, "swap_exact_sol_for_tokens")
       THEN "buy"
       ELSE IF \/ Includes(description, "swap_exact_tokens_for_sol")
               \/ Includes(description, "swap_tokens_for_exact_sol")
       THEN "sell"
       ELSE "unknown"

\* classifyTradeType(tx), for a record it does not throw on
ClassifyBody(t) ==
    LET type == LowerType(t)
        description == ToLowerCase(JSONStringify(t))
        nat == List(t, "nativeTransfers")
        tok == List(t, "tokenTransfers")
    IN IF Includes(type, "buy") \/ Includes(type, "swap_in") THEN "buy"
       ELSE IF Includes(type, "sell") \/ Includes(type, "swap_out") THEN "sell"
       ELSE IF Length(nat) > 0 /\ SumOut(nat.items, Text(t, "source")) > 0
       THEN "buy"
       ELSE IF Length(tok) > 0 /\ SumOut(tok.items, Text(t, "source")) > 0
       THEN "sell"
       ELSE IF \/ Includes(description, "swap_exact_tokens_for_tokens")
               \/ Includes(description, "swap_exact_sol_for_tokens")
       THEN "buy"
       ELSE IF \/ Includes(description, "swap_exact_tokens_for_sol")
               \/ Includes(description, "swap_tokens_for_exact_sol")
       THEN "sell"
       ELSE "unknown"

\* classifyTradeType(tx): [kind |-> 'buy' | 'sell' | 'unknown'], or Threw
ClassifyTradeType(t) ==
    IF IsNull(t) THEN [kind |-> "unknown"]
    ELSE IF ClassifyThrows(t) THEN Threw
    ELSE [kind |-> ClassifyBody(t)]

RECURSIVE SumAmounts(_)
\* reduce((sum, x) => sum + (x.amount || 0), 0)
SumAmounts(items) ==
    IF Len(items) = 0 THEN 0
    ELSE Num(Head(items), "amount") + SumAmounts(Tail(items))

RECURSIVE SumAbsAmounts(_)
\* reduce((tokenSum, token) => tokenSum + Math.abs(token.amount), 0)
SumAbsAmounts(items) ==
    IF Len(items) = 0 THEN 0
    ELSE Abs(Head(items).amount) + SumAbsAmounts(Tail(items))

\* the callback of lines 413-424 on one accountData entry
AccountChange(a) ==
    LET tbc == List(a, "tokenBalanceChanges")
    IN Abs(Num(a, "nativeBalanceChange")
           + (IF Length(tbc) > 0 THEN SumAbsAmounts(tbc.items) ELSE 0))

RECURSIVE SumAccountChanges(_)
SumAccountChanges(items) ==
    IF Len(items) = 0 THEN 0
    ELSE AccountChange(Head(items)) + SumAccountChanges(Tail(items))

ValueThrows(t) ==
    /\ ~IsNull(t)
    /\ \/ ReduceThrows(List(t, "nativeTransfers"))
       \/ ReduceThrows(List(t, "tokenTransfers"))
       \/ ReduceThrows(List(t, "accountData"))
       \/ LET l == List(t, "accountData")
          IN \E i \in 1..Len(l.items) :
                ReduceThrows(List(l.items[i], "tokenBalanceChanges"))

Max(a, b) == IF a >= b THEN a ELSE b

\* calculateTradeValue(tx): [value |-> n], or Threw
CalculateTradeValue(t) ==
    IF IsNull(t) THEN [value |-> 0]
    ELSE IF ValueThrows(t) THEN Threw
    ELSE LET nat == List(t, "nativeTransfers")
             tok == List(t, "tokenTransfers")
             acc == List(t, "accountData")
             transfers == (IF Length(nat) > 0 THEN SumAmounts(nat.items) ELSE 0)
                          + (IF Length(tok) > 0 THEN SumAmounts(tok.items) ELSE 0)
         IN [value |-> IF Length(acc) > 0
                       THEN Max(transfers, SumAccountChanges(acc.items))
                       ELSE transfers]

\* the trade records of lines 436-443, or Threw when a classifier throws
Trades(list) ==
    LET isTrade == [i \in 1..Len(list) |-> IsTradeTransaction(list[i])]
    IN IF \E i \in 1..Len(list) : isTrade[i] = Threw THEN Threw
       ELSE LET kept == SelectSeq(list, LAMBDA t : Truthy(IsTradeTransaction(t)))
                recs == [i \in 1..Len(kept) |->
                            [type |-> ClassifyTradeType(kept[i]),
                             value |-> CalculateTradeValue(kept[i]),
                             timestamp |-> Num(kept[i], "timestamp"),
                             originalType |-> Text(kept[i], "type")]]
            IN IF \E i \in 1..Len(recs) :
                     recs[i].type = Threw \/ recs[i].value = Threw
               THEN Threw
               ELSE [trades |-> [i \in 1..Len(recs) |->
                                    [type |-> recs[i].type.kind,
                                     value |-> recs[i].value.value,
                                     timestamp |-> recs[i].timestamp,
                                     originalType |-> recs[i].originalType]]]

RECURSIVE SumValues(_)
SumValues(trades) ==
    IF Len(trades) = 0 THEN 0 ELSE Head(trades).value + SumValues(Tail(trades))

CountType(trades, k) == Len(SelectSeq(trades, LAMBDA t : t.type = k))

NaN == [nan |-> TRUE]

\* sum / totalTrades for the sum of a list of totalTrades numbers: 0 / 0
\* is NaN
Divide(sum, n) == IF n = 0 THEN NaN ELSE Rat(sum, n)

\* v || 0: NaN and 0 are falsy
OrZero(v) == IF v = NaN \/ v = RatZero THEN RatZero ELSE v

Pad2(n) == IF n < 10 THEN "0" \o ToString(n) ELSE ToString(n)

\* Number.prototype.toFixed(2); NaN.toFixed(2) is 'NaN'
ToFixed2(a) ==
    IF a = NaN THEN "NaN"
    ELSE LET centi == (2 * Abs(a.num) * 100 + a.den) \div (2 * a.den)
         IN (IF a.num < 0 /\ centi > 0 THEN "-" ELSE "")
            \o ToString(centi \div 100) \o "." \o Pad2(centi % 100)

\* line 448 without the || 0
MetricsNoDefault(trades) ==
    [buyCount |-> CountType(trades, "buy"),
     sellCount |-> CountType(trades, "sell"),
     totalTrades |-> Len(trades),
     averageTradeValue |-> Divide(SumValues(trades), Len(trades)),
     recent |-> SubSeq(SortDesc(trades), 1, Max(0, IF Len(trades) < 5 THEN Len(trades) ELSE 5))]

\* lines 445-452: the numbers the prompt is built from
Metrics(trades) ==
    [buyCount |-> CountType(trades, "buy"),
     sellCount |-> CountType(trades, "sell"),
     totalTrades |-> Len(trades),
     averageTradeValue |-> OrZero(Divide(SumValues(trades), Len(trades))),
     recent |-> SubSeq(SortDesc(trades), 1, Max(0, IF Len(trades) < 5 THEN Len(trades) ELSE 5))]

\* what openai.chat.completions.create can do: reject, resolve with empty
\* content, resolve with a text
AdapterOutcomes == {"throws", "empty", "text"}
AdapterText == "Wallet shows steady trading."

\* line 461 of the prompt
AverageLine(metrics) ==
    "- Average trade value: " \o ToFixed2(metrics.averageTradeValue) \o " SOL"

\* analyzeBatch without its catch block: the promise rejects
AnalyzeBatchNoCatch(list, adapter) ==
    LET tr == Trades(list)
    IN IF tr = Threw \/ adapter = "throws" THEN Threw
       ELSE [text |-> IF adapter = "empty"
                      THEN "Unable to analyze transactions" ELSE AdapterText,
             called |-> TRUE,
             metrics |-> Metrics(tr.trades)]

\* analyzeBatch(transactions) with the adapter behaving as `adapter`:
\* the string it resolves to, whether the adapter was called, the metrics
AnalyzeBatch(list, adapter) ==
    LET tr == Trades(list)
    IN IF tr = Threw
       THEN [text |-> "Batch analysis unavailable", called |-> FALSE,
             metrics |-> NullValue]
       ELSE [text |-> CASE adapter = "throws" -> "Batch analysis unavailable"
                        [] adapter = "empty"  -> "Unable to analyze transactions"
                        [] OTHER              -> AdapterText,
             called |-> TRUE,
             metrics |-> Metrics(tr.trades)]

----------------------------------------------------------------------------
(* inputs of the pure-function harness *)

Wallet == "Wa11etA"
Peer   == "Peer2B"
Now    == 99

\* the number of transfers a sampled list holds after its first
MaxLater == 1

\* the number of records a delivered history or a batch holds at most
MaxBatch == 2

SeqsUpTo(S, n) == UNION {[1..k -> S] : k \in 0..n}

NativeTransfer(from, to, amt) ==
    [fromUserAccount |-> from, toUserAccount |-> to, amount |-> amt]
TokenTransfer(from, to, mint, amt) ==
    [fromUserAccount |-> from, toUserAccount |-> to, mint |-> mint,
     amount |-> amt]

Directions == {<<Wallet, Peer>>, <<Peer, Wallet>>, <<Peer, Peer>>}

\* lamports: below the dust threshold (500,000), exactly on it (1,000,000),
\* well above it; every direction with the large amount
FirstNative ==
    {NativeTransfer(d[1], d[2], 2000000000) : d \in Directions}
    \cup {NativeTransfer(d[1], d[2], a) :
            d \in {<<Wallet, Peer>>, <<Peer, Wallet>>}, a \in {500000, 1000000}}
LaterNative == {NativeTransfer(Peer, Wallet, 500000)}

\* token amounts in display units: positive in every direction, and a zero
\* and a negative one; one mint whose lower-cased text holds 'orca'
FirstToken ==
    {TokenTransfer(d[1], d[2], "M1ntA", 5) : d \in Directions}
    \cup {TokenTransfer(Wallet, Peer, "M1ntA", a) : a \in {0, -5}}
    \cup {TokenTransfer(Peer, Wallet, "7oRcAm", 5)}
LaterToken == {TokenTransfer(Wallet, Peer, "M1ntA", 7)}

NativeLists ==
    {UndefinedList, Array(<<>>)}
    \cup {Array(<<f>> \o r) : f \in FirstNative, r \in SeqsUpTo(LaterNative, MaxLater)}
TokenLists ==
    {UndefinedList, Array(<<>>)}
    \cup {Array(<<f>> \o r) : f \in FirstToken, r \in SeqsUpTo(LaterToken, MaxLater)}

OneAccount ==
    Array(<<[account |-> Wallet, nativeBalanceChange |-> -5000,
             tokenBalanceChanges |-> Array(<<>>)]>>)

BaseTx == [signature |-> "5igA", timestamp |-> 30, fee |-> 5000,
           nativeTransfers |-> Array(<<>>), tokenTransfers |-> Array(<<>>),
           accountData |-> OneAccount]

WithType(t, ty) == IF ty = "" THEN t ELSE [type |-> ty] @@ t

NormTypes == {"", "TRANSFER", "SWAP"}

WellFormedNorm ==
    {WithType([BaseTx EXCEPT !.nativeTransfers = n, !.tokenTransfers = k], ty) :
        n \in NativeLists, k \in TokenLists, ty \in NormTypes}

GoodNative == Array(<<NativeTransfer(Wallet, Peer, 2000000000)>>)

\* records the declared type HeliusTransaction does not admit
Malformed ==
    {NullValue,
     [BaseTx EXCEPT !.nativeTransfers = EmptyObject],
     [BaseTx EXCEPT !.nativeTransfers = ArrayLike],
     [BaseTx EXCEPT !.nativeTransfers = GoodNative, !.tokenTransfers = ArrayLike],
     [BaseTx EXCEPT !.nativeTransfers = Array(<<NullValue>>)],
     [BaseTx EXCEPT !.nativeTransfers = GoodNative,
                    !.tokenTransfers = Array(<<NullValue>>)],
     [BaseTx EXCEPT !.nativeTransfers = GoodNative, !.accountData = ArrayLike],
     [cycle |-> TRUE] @@ [BaseTx EXCEPT !.nativeTransfers = GoodNative]}

NormInputs == WellFormedNorm \cup Malformed

\* the record delivered ahead of tx in the harness batch; it is older
Companion ==
    [BaseTx EXCEPT !.signature = "5igB", !.timestamp = 20,
                   !.nativeTransfers = GoodNative]

----------------------------------------------------------------------------
(* the pure-function harness *)

\* no function of the harness was called yet
FunIdle ==
    /\ normOut = Pending /\ feedOut = Pending
    /\ tradeOut = Pending /\ classOut = Pending /\ valueOut = Pending

BatchIdle == batch = <<>> /\ batchOut = Pending

\* a PriceManager right after construction: private cache = new Map()
PriceIdle ==
    /\ priceCache = NullValue /\ clock = 0
    /\ priceOut = Pending /\ providers = <<>> /\ contacted = <<>>

\* initialCryptoData; change is in hundredths of a percent, marketCap and
\* volume are copied unchanged by every spread and are left out
initialCryptoData ==
    <<[name |-> "Bitcoin", symbol |-> "BTC", price |-> 67000, change |-> 250,
       expanded |-> FALSE, coingeckoId |-> "bitcoin"],
      [name |-> "Ethereum", symbol |-> "ETH", price |-> 3850, change |-> -38,
       expanded |-> FALSE, coingeckoId |-> "ethereum"],
      [name |-> "Solana", symbol |-> "SOL", price |-> 125, change |-> 87,
       expanded |-> FALSE, coingeckoId |-> "solana"]>>

Symbols == {initialCryptoData[i].symbol : i \in 1..Len(initialCryptoData)}

\* the Home page as first rendered, nothing in flight
HomeIdle ==
    /\ cryptoPrices = initialCryptoData
    /\ priceFetches = 0
    /\ analysisCalls = [sym \in Symbols |-> 0]

\* the logger as constructed
LogsIdle == logs = <<>> /\ calls = 0 /\ clears = 0

LoggerIdle == LogsIdle /\ context = [undefined |-> TRUE]

\* nothing else of the application has run
OtherIdle == loads = <<>> /\ LoggerIdle /\ HomeIdle

PageIdle ==
    /\ adapterOutcome = "none"
    /\ pc = "idle" /\ address = "" /\ loading = TRUE /\ error = ""
    /\ solBalance = RatZero /\ solPrice = 0 /\ solChange = 0
    /\ tokens = <<>> /\ transactions = <<>> /\ portfolioValue = RatZero
    /\ portfolioChange = 0 /\ activityAnalysis = ""
    /\ analyzingTransactions = FALSE
    /\ rawTxs = <<>> /\ analyzed = <<>> /\ requests = <<>>

InitNorm ==
    /\ tx \in NormInputs
    /\ FunIdle /\ BatchIdle /\ PriceIdle
    /\ PageIdle /\ OtherIdle

Normalize ==
    /\ normOut = Pending
    /\ normOut' = ProcessTransaction(tx, Wallet, Now)
    /\ UNCHANGED <<tx, feedOut, tradeOut, classOut, valueOut, batchVars,
                   priceVars, pageVars, otherVars>>

Feed ==
    /\ feedOut = Pending
    /\ feedOut' = GetTransactions([ok |-> TRUE, txs |-> <<Companion, tx>>],
                                  Wallet, Now)
    /\ UNCHANGED <<tx, normOut, tradeOut, classOut, valueOut, batchVars,
                   priceVars, pageVars, otherVars>>

NextNorm == Normalize \/ Feed

SpecNorm == InitNorm /\ [][NextNorm]_vars

----------------------------------------------------------------------------
(* the Trade Classifier harness *)

AccountEntry(native, changes) ==
    [account |-> Wallet, nativeBalanceChange |-> native,
     tokenBalanceChanges |-> Array(changes)]
TokenChange(mint, amt) == [mint |-> mint, amount |-> amt]

\* accountData: absent, empty, one entry without any change, with a native
\* change, with a token change entry of amount 0, with one of amount 5, and
\* an unchanged entry followed by a changed one
AccountLists ==
    {UndefinedList, Array(<<>>),
     Array(<<AccountEntry(0, <<>>)>>),
     Array(<<AccountEntry(-5000, <<>>)>>),
     Array(<<AccountEntry(0, <<TokenChange("M1ntA", 0)>>)>>),
     Array(<<AccountEntry(0, <<TokenChange("M1ntA", 5)>>)>>),
     Array(<<AccountEntry(0, <<>>), AccountEntry(7000, <<>>)>>)}

TradeNativeLists ==
    {UndefinedList, Array(<<>>),
     Array(<<NativeTransfer(Wallet, Peer, 400000000)>>),
     Array(<<NativeTransfer(Peer, Wallet, 400000000)>>)}
    \cup {Array(<<NativeTransfer(Peer, Wallet, 300000000)>> \o r) :
            r \in SeqsUpTo({NativeTransfer(Wallet, Peer, 400000000)}, MaxLater) \ {<<>>}}

TradeTokenLists ==
    {UndefinedList, Array(<<>>),
     Array(<<TokenTransfer(Wallet, Peer, "M1ntA", 5)>>),
     Array(<<TokenTransfer(Peer, Wallet, "M1ntA", 5)>>),
     Array(<<TokenTransfer(Peer, Wallet, "DexM1nt", 5)>>)}

WithSource(t, src) == IF src = "" THEN t ELSE [source |-> src] @@ t

\* isTradeTransaction reads the type, the transfer lists and accountData
IsTradeFamily ==
    {WithType([BaseTx EXCEPT !.nativeTransfers = n, !.tokenTransfers = k,
                             !.accountData = a], ty) :
        n \in {UndefinedList, Array(<<>>),
               Array(<<NativeTransfer(Wallet, Peer, 400000000)>>)},
        k \in {UndefinedList,
               Array(<<TokenTransfer(Peer, Wallet, "M1ntA", 5)>>),
               Array(<<TokenTransfer(Peer, Wallet, "DexM1nt", 5)>>)},
        a \in AccountLists,
        ty \in {"", "TRANSFER", "NFT_TRADE"}}

\* classifyTradeType reads the type, tx.source and the transfer lists
ClassifyFamily ==
    {WithSource(WithType([BaseTx EXCEPT !.nativeTransfers = n,
                                        !.tokenTransfers = k], ty), src) :
        n \in TradeNativeLists, k \in TradeTokenLists,
        ty \in {"", "TRANSFER", "TOKEN_BUY", "SELL", "SWAP_EXACT_TOKENS_FOR_SOL",
                "SWAP_EXACT_SOL_FOR_TOKENS"},
        src \in {"", Wallet, Peer}}

\* accountData for calculateTradeValue: also entries whose native and
\* token changes have opposite or negative signs
ValueAccountLists ==
    {UndefinedList, Array(<<>>),
     Array(<<AccountEntry(-5000, <<>>)>>),
     Array(<<AccountEntry(-5000, <<TokenChange("M1ntA", 3)>>)>>),
     Array(<<AccountEntry(2, <<TokenChange("M1ntA", -3)>>),
             AccountEntry(0, <<TokenChange("M1ntA", 4)>>)>>)}

\* calculateTradeValue reads the transfer amounts and accountData
ValueFamily ==
    {[BaseTx EXCEPT !.nativeTransfers = n, !.tokenTransfers = k,
                    !.accountData = a] :
        n \in {UndefinedList, Array(<<>>),
               Array(<<NativeTransfer(Wallet, Peer, 7000)>>),
               Array(<<NativeTransfer(Wallet, Peer, -5)>>),
               Array(<<NativeTransfer(Wallet, Peer, 7000),
                       NativeTransfer(Peer, Wallet, 300)>>)},
        k \in {UndefinedList,
               Array(<<TokenTransfer(Wallet, Peer, "M1ntA", 5)>>),
               Array(<<TokenTransfer(Wallet, Peer, "M1ntA", -5)>>)},
        a \in ValueAccountLists}

TradeInputs == IsTradeFamily \cup ClassifyFamily \cup ValueFamily \cup Malformed

InitTrade ==
    /\ tx \in TradeInputs
    /\ FunIdle /\ BatchIdle /\ PriceIdle
    /\ PageIdle /\ OtherIdle

IsTrade ==
    /\ tradeOut = Pending
    /\ tradeOut' = IsTradeTransaction(tx)
    /\ UNCHANGED <<tx, normOut, feedOut, classOut, valueOut, batchVars,
                   priceVars, pageVars, otherVars>>

Classify ==
    /\ classOut = Pending
    /\ classOut' = ClassifyTradeType(tx)
    /\ UNCHANGED <<tx, normOut, feedOut, tradeOut, valueOut, batchVars,
                   priceVars, pageVars, otherVars>>

Value ==
    /\ valueOut = Pending
    /\ valueOut' = CalculateTradeValue(tx)
    /\ UNCHANGED <<tx, normOut, feedOut, tradeOut, classOut, batchVars,
                   priceVars, pageVars, otherVars>>

NextTrade == IsTrade \/ Classify \/ Value

SpecTrade == InitTrade /\ [][NextTrade]_vars

----------------------------------------------------------------------------
(* the analyzeBatch harness *)

\* a ProcessedTransaction of type Swap, as the page hands over
SwapRecord ==
    ProcessTransaction(WithType([BaseTx EXCEPT !.nativeTransfers = GoodNative],
                                "SWAP"), Wallet, Now)

\* a trade classified buy, a trade classified sell, two records that are
\* no trade, a trade whose classification throws, a normalized record
BatchRecords ==
    {WithSource(WithType([BaseTx EXCEPT !.signature = "5igT", !.timestamp = 10,
             !.nativeTransfers =
                 Array(<<NativeTransfer(Wallet, Peer, 400000000)>>)],
             "SWAP"), Wallet),
     WithType([BaseTx EXCEPT !.signature = "5igU", !.timestamp = 40,
             !.tokenTransfers =
                 Array(<<TokenTransfer(Wallet, Peer, "M1ntA", 5)>>)],
             "TOKEN_SELL"),
     [BaseTx EXCEPT !.signature = "5igN", !.accountData = Array(<<>>)],
     NullValue,
     WithType([BaseTx EXCEPT !.nativeTransfers = Array(<<NullValue>>)], "SWAP"),
     SwapRecord}

Batches == SeqsUpTo(BatchRecords, MaxBatch)

InitBatch ==
    /\ batch \in Batches
    /\ batchOut = Pending
    /\ tx = NullValue /\ FunIdle /\ PriceIdle /\ PageIdle /\ OtherIdle

\* analyzeBatch(batch) settles, the adapter behaving as outcome if called
Analyze(outcome) ==
    /\ batchOut = Pending
    /\ batchOut' = AnalyzeBatch(batch, outcome)
    /\ adapterOutcome' = IF Trades(batch) = Threw THEN "none" ELSE outcome
    /\ UNCHANGED <<tx, funVars, batch, priceVars, componentVars, otherVars>>

NextBatch == \E outcome \in AdapterOutcomes : Analyze(outcome)

SpecBatch == InitBatch /\ [][NextBatch]_vars

----------------------------------------------------------------------------
(* PriceManager *)

\* CACHE_DURATION = 3600000, 1 hour
CACHE_DURATION == 3600000

\* ENDPOINTS, in the order they are tried
ENDPOINTS == <<"CoinGecko", "Jupiter", "Binance">>

\* what each endpoint's parser yields when the endpoint answers
EndpointResult ==
    ("CoinGecko" :> [price |-> 150, change24h |-> 2]) @@
    ("Jupiter"   :> [price |-> 149, change24h |-> 0]) @@
    ("Binance"   :> [price |-> 148, change24h |-> -1])

\* the final fallback of lines 119-120
FallbackPrice == [price |-> 100, change24h |-> 0]

PriceOf(cached) == [price |-> cached.price, change24h |-> cached.change24h]

\* line 96: the entry exists and is younger than CACHE_DURATION
Fresh(cached, now) ==
    cached # NullValue /\ now - cached.timestamp < CACHE_DURATION

\* how one request to an endpoint can end: a parsable 200, a 429 (with or
\* without Retry-After), another HTTP error, the 5000 ms abort
EndpointOutcomes == {"ok", "rateLimited", "httpError", "timeout"}

\* fetchEndpoint, lines 70-90: the parsed result, or null on any failure;
\* a 429 waits for Retry-After and then throws into the same catch
FetchEndpoint(name, outcome) ==
    IF outcome = "ok" THEN EndpointResult[name] ELSE NullValue

\* the loop going on to the next endpoint after one has answered
ConsultedAll(answers) == answers

\* the endpoints fetchEndpoint was called on: all up to the first that
\* answers; answers[i] says whether ENDPOINTS[i] answers (fetchEndpoint
\* returns null on any failure)
Consulted(answers) ==
    IF \E i \in 1..Len(answers) : answers[i]
    THEN SubSeq(answers, 1,
                CHOOSE i \in 1..Len(answers) :
                    answers[i] /\ \A j \in 1..(i - 1) : ~answers[j])
    ELSE answers

\* getSolanaPrice that stamps the entry again on every cache hit
GetSolanaPriceTouch(cached, now, answers) ==
    IF Fresh(cached, now)
    THEN [result |-> PriceOf(cached),
          cache |-> [cached EXCEPT !.timestamp = now], consulted |-> <<>>]
    ELSE LET tried == Consulted(answers)
         IN IF Len(tried) > 0 /\ tried[Len(tried)]
            THEN LET result == EndpointResult[ENDPOINTS[Len(tried)]]
                 IN [result |-> result,
                     cache |-> result @@ [timestamp |-> now],
                     consulted |-> tried]
            ELSE IF cached # NullValue
            THEN [result |-> PriceOf(cached), cache |-> cached,
                  consulted |-> tried]
            ELSE [result |-> FallbackPrice, cache |-> cached,
                  consulted |-> tried]

\* getSolanaPrice that gives up the expired entry: all endpoints failing
\* goes straight to the final fallback
GetSolanaPriceNoStale(cached, now, answers) ==
    IF Fresh(cached, now)
    THEN [result |-> PriceOf(cached), cache |-> cached, consulted |-> <<>>]
    ELSE LET tried == Consulted(answers)
         IN IF Len(tried) > 0 /\ tried[Len(tried)]
            THEN LET result == EndpointResult[ENDPOINTS[Len(tried)]]
                 IN [result |-> result,
                     cache |-> result @@ [timestamp |-> now],
                     consulted |-> tried]
            ELSE [result |-> FallbackPrice, cache |-> cached,
                  consulted |-> tried]

\* getSolanaPrice(), lines 92-135, with Date.now() = now and the cache
\* entry cached: what it resolves to, the cache entry it leaves and the
\* endpoints it consulted
GetSolanaPrice(cached, now, answers) ==
    IF Fresh(cached, now)
    THEN [result |-> PriceOf(cached), cache |-> cached, consulted |-> <<>>]
    ELSE LET tried == Consulted(answers)
         IN IF Len(tried) > 0 /\ tried[Len(tried)]
            THEN LET result == EndpointResult[ENDPOINTS[Len(tried)]]
                 IN [result |-> result,
                     cache |-> result @@ [timestamp |-> now],
                     consulted |-> tried]
            ELSE IF cached # NullValue
            THEN [result |-> PriceOf(cached), cache |-> cached,
                  consulted |-> tried]
            ELSE [result |-> FallbackPrice, cache |-> cached,
                  consulted |-> tried]

\* the number of half hours the clock advances at most
MaxTicks == 5

\* how the three endpoints would end, were they asked
Outcomes == [1..Len(ENDPOINTS) -> EndpointOutcomes]

\* whether fetchEndpoint yields a result for each endpoint
Answers(outcomes) ==
    [i \in 1..Len(ENDPOINTS) |->
        FetchEndpoint(ENDPOINTS[i], outcomes[i]) # NullValue]

\* the first n requests of the loop of lines 101-112
Requests(outcomes, n) ==
    [i \in 1..n |-> [name |-> ENDPOINTS[i], outcome |-> outcomes[i]]]

InitPrice ==
    /\ PriceIdle
    /\ tx = NullValue /\ FunIdle /\ BatchIdle /\ PageIdle /\ OtherIdle

\* one call of getSolanaPrice()
GetPrice(outcomes) ==
    /\ LET got == GetSolanaPrice(priceCache, clock, Answers(outcomes))
       IN /\ priceOut' = got.result
          /\ priceCache' = got.cache
          /\ providers' = got.consulted
          /\ contacted' = Requests(outcomes, Len(got.consulted))
    /\ UNCHANGED <<clock, tx, funVars, batchVars, pageVars, otherVars>>

\* half an hour passes
Tick ==
    /\ clock < MaxTicks * (CACHE_DURATION \div 2)
    /\ clock' = clock + CACHE_DURATION \div 2
    /\ UNCHANGED <<priceCache, priceOut, providers, contacted, tx, funVars,
                   batchVars,
                   pageVars, otherVars>>

NextPrice == (\E outcomes \in Outcomes : GetPrice(outcomes)) \/ Tick

SpecPrice == InitPrice /\ [][NextPrice]_vars

----------------------------------------------------------------------------
(* getTokenAccounts *)

\* what the Token Metadata Source knows: mint -> symbol and name
KnownMetadata ==
    ("M1ntA" :> [symbol |-> "AAA", name |-> "Token A"])

\* lines 169-177 / 234-242: an account with the metadata found for its mint
Enhance(account, metaOk) ==
    IF metaOk /\ account.mint \in DOMAIN KnownMetadata
    THEN account @@ KnownMetadata[account.mint]
    ELSE account @@ [symbol |-> "Unknown", name |-> "Unknown Token"]

\* lines 146-159 / 222-224: the accounts with a positive balance
PositiveAccounts(held) ==
    LET positive == SelectSeq(held, LAMBDA h : h.uiAmount > 0)
    IN [i \in 1..Len(positive) |->
           [mint |-> positive[i].mint, owner |-> positive[i].owner,
            amount |-> positive[i].uiAmount, decimals |-> positive[i].decimals]]

\* one of the two paths: chain is [held, parsedOk / rawOk], meta says whether
\* the metadata request succeeds; getTokenMetadata([]) makes no request.
\* [value |-> accounts], or Threw.
TokenPath(held, rpcOk, metaOk) ==
    IF ~rpcOk THEN Threw
    ELSE IF Len(held) = 0 THEN [value |-> <<>>]
    ELSE LET accounts == PositiveAccounts(held)
         IN IF Len(accounts) > 0 /\ ~metaOk THEN Threw
            ELSE [value |-> [i \in 1..Len(accounts) |->
                                Enhance(accounts[i], TRUE)]]

\* getTokenAccounts(address): the parsed path, on any failure of it the
\* fallback path, and Error('Failed to fetch token accounts') (Threw) when
\* that fails too
GetTokenAccounts(env) ==
    LET first == TokenPath(env.held, env.parsedOk, env.meta1Ok)
    IN IF first # Threw THEN first
       ELSE TokenPath(env.held, env.rawOk, env.meta2Ok)

----------------------------------------------------------------------------
(* the page load: WalletAnalyzer, fetchWalletData *)

\* new PublicKey(address) accepts these
ValidAddresses == {Wallet, Peer}
Addresses == {Wallet, "not-a-key"}

PriceOutcomes == {[price |-> 150, change24h |-> 2], [price |-> 100, change24h |-> 0]}

\* lamports getBalance can deliver
BalanceOutcomes == {2000000000}

Holding(mint, amt) ==
    [mint |-> mint, owner |-> Wallet, uiAmount |-> amt, decimals |-> 6]
HeldOutcomes ==
    {<<>>, <<Holding("M1ntA", 5)>>,
     <<Holding("M1ntA", 5), Holding("M1ntB", 0), Holding("M1ntC", 3)>>}
TokenEnvs ==
    [held : HeldOutcomes, parsedOk : BOOLEAN, meta1Ok : BOOLEAN,
     rawOk : BOOLEAN, meta2Ok : BOOLEAN]

\* the market price of a token, for the mints that have one
MarketPrice == ("M1ntA" :> 2)

\* the raw records the Raw Transaction Source can deliver
LoadRaws ==
    {[BaseTx EXCEPT !.signature = "5ig1", !.timestamp = 10,
                    !.nativeTransfers = GoodNative],
     [BaseTx EXCEPT !.signature = "5ig2", !.timestamp = 30,
                    !.tokenTransfers =
                        Array(<<TokenTransfer(Peer, Wallet, "M1ntA", 5)>>)],
     [BaseTx EXCEPT !.signature = "5ig3", !.timestamp = 20,
                    !.nativeTransfers =
                        Array(<<NativeTransfer(Wallet, Peer, 500000)>>)],
     WithType([BaseTx EXCEPT !.signature = "5ig4", !.timestamp = 40,
                             !.nativeTransfers = GoodNative], "SWAP"),
     [BaseTx EXCEPT !.signature = "5ig5", !.timestamp = 50,
                    !.nativeTransfers = Array(<<NullValue>>)]}

Histories ==
    {[ok |-> FALSE, txs |-> <<>>]}
    \cup {[ok |-> TRUE, txs |-> b] : b \in SeqsUpTo(LoadRaws, MaxBatch)}

RECURSIVE SumTokenValue(_)
\* reduce((acc, token) => acc + (token.value || 0), 0)
SumTokenValue(accounts) ==
    IF Len(accounts) = 0 THEN RatZero
    ELSE RatAdd(IF Has(Head(accounts), "value") THEN Head(accounts).value
                ELSE RatZero,
                SumTokenValue(Tail(accounts)))

\* lines 89-92
TotalValue(balance, currentSolPrice, tokenAccounts) ==
    RatAdd(RatMul(balance, RatInt(currentSolPrice)), SumTokenValue(tokenAccounts))

HarnessIdle == tx = NullValue /\ FunIdle /\ BatchIdle /\ PriceIdle

Init == HarnessIdle /\ PageIdle /\ OtherIdle

\* the catch block without setError
FailWithoutError(message) ==
    /\ error' = error
    /\ loading' = FALSE
    /\ analyzingTransactions' = FALSE
    /\ pc' = "failed"

\* the catch block, lines 104-109
Fail(message) ==
    /\ error' = message
    /\ loading' = FALSE
    /\ analyzingTransactions' = FALSE
    /\ pc' = "failed"

\* fetchWalletData requesting the price before it validates the address
StartFetchFirst(a) ==
    /\ pc = "idle"
    /\ address' = a
    /\ requests' = Append(requests, "price")
    /\ IF a \in ValidAddresses
       THEN /\ loading' = TRUE /\ error' = "" /\ analyzingTransactions' = TRUE
            /\ pc' = "price"
       ELSE Fail("Invalid wallet address")
    /\ UNCHANGED <<solBalance, solPrice, solChange, tokens, transactions,
                   portfolioValue, portfolioChange, activityAnalysis,
                   rawTxs, analyzed, adapterOutcome,
                   harnessVars>>

\* the effect runs: lines 62-77, up to the first await
Start(a) ==
    /\ pc = "idle"
    /\ address' = a
    /\ IF a \in ValidAddresses
       THEN /\ loading' = TRUE /\ error' = "" /\ analyzingTransactions' = TRUE
            /\ requests' = Append(requests, "price")
            /\ pc' = "price"
       ELSE /\ Fail("Invalid wallet address")
            /\ UNCHANGED requests
    /\ UNCHANGED <<solBalance, solPrice, solChange, tokens, transactions,
                   portfolioValue, portfolioChange, activityAnalysis,
                   rawTxs, analyzed, adapterOutcome,
                   harnessVars>>

\* getSolanaPrice resolved: lines 77-82
PriceResolved(p) ==
    /\ pc = "price"
    /\ solPrice' = p.price /\ solChange' = p.change24h
    /\ requests' = Append(requests, "balance")
    /\ pc' = "balance"
    /\ UNCHANGED <<address, loading, error, solBalance, tokens, transactions,
                   portfolioValue, portfolioChange, activityAnalysis,
                   analyzingTransactions, rawTxs, analyzed, adapterOutcome,
                   harnessVars>>

\* getBalance resolved: lines 82-86
BalanceResolved(lamports) ==
    /\ pc = "balance"
    /\ solBalance' = Rat(lamports, LAMPORTS_PER_SOL)
    /\ requests' = Append(requests, "tokenAccounts")
    /\ pc' = "tokens"
    /\ UNCHANGED <<address, loading, error, solPrice, solChange, tokens,
                   transactions, portfolioValue, portfolioChange,
                   activityAnalysis, analyzingTransactions, rawTxs, analyzed,
                   adapterOutcome,
                   harnessVars>>

\* getBalance rejected with Error('Failed to fetch balance')
BalanceFailed ==
    /\ pc = "balance"
    /\ Fail("Failed to fetch balance")
    /\ UNCHANGED <<address, solBalance, solPrice, solChange, tokens,
                   transactions, portfolioValue, portfolioChange,
                   activityAnalysis, rawTxs, analyzed, requests, adapterOutcome,
                   harnessVars>>

\* getTokenAccounts settled: lines 86-97
TokensSettled(env) ==
    /\ pc = "tokens"
    /\ LET got == GetTokenAccounts(env)
       IN IF got = Threw
          THEN /\ Fail("Failed to fetch token accounts")
               /\ UNCHANGED <<tokens, portfolioValue, portfolioChange, requests>>
          ELSE /\ tokens' = got.value
               /\ portfolioValue' = TotalValue(solBalance, solPrice, got.value)
               /\ portfolioChange' = solChange
               /\ requests' = Append(requests, "transactions")
               /\ pc' = "txs"
               /\ UNCHANGED <<loading, error, analyzingTransactions>>
    /\ UNCHANGED <<address, solBalance, solPrice, solChange, transactions,
                   activityAnalysis, rawTxs, analyzed, adapterOutcome,
                   harnessVars>>

\* getTransactions settled: lines 97-98, analyzeBatch(txs) called
TransactionsSettled(history) ==
    /\ pc = "txs"
    /\ LET txs == GetTransactions(history, address, Now)
       IN IF txs = Threw
          THEN /\ Fail("Failed to fetch transactions")
               /\ UNCHANGED <<rawTxs, analyzed, requests>>
          ELSE /\ rawTxs' = history.txs
               /\ analyzed' = txs.value
               /\ requests' = IF AnalyzeBatch(txs.value, "text").called
                              THEN Append(requests, "summarize")
                              ELSE requests
               /\ pc' = "analyze"
               /\ UNCHANGED <<loading, error, analyzingTransactions>>
    /\ UNCHANGED <<address, solBalance, solPrice, solChange, tokens,
                   transactions, portfolioValue, portfolioChange,
                   activityAnalysis, adapterOutcome,
                   harnessVars>>

\* analyzeBatch rejecting when the adapter throws: the page's catch runs
AnalysisPropagates(outcome) ==
    /\ pc = "analyze"
    /\ adapterOutcome' = outcome
    /\ IF outcome = "throws"
       THEN /\ Fail("Request failed")
            /\ UNCHANGED <<activityAnalysis, transactions>>
       ELSE /\ activityAnalysis' = AnalyzeBatch(analyzed, outcome).text
            /\ transactions' = analyzed
            /\ loading' = FALSE
            /\ analyzingTransactions' = FALSE
            /\ pc' = "done"
            /\ UNCHANGED error
    /\ UNCHANGED <<address, solBalance, solPrice, solChange, tokens,
                   portfolioValue, portfolioChange, rawTxs, analyzed,
                   requests, harnessVars>>

\* analyzeBatch resolved: lines 98-103
AnalysisResolved(outcome) ==
    /\ pc = "analyze"
    /\ adapterOutcome' = IF Trades(analyzed) = Threw THEN "none" ELSE outcome
    /\ activityAnalysis' = AnalyzeBatch(analyzed, outcome).text
    /\ transactions' = analyzed
    /\ loading' = FALSE
    /\ analyzingTransactions' = FALSE
    /\ pc' = "done"
    /\ UNCHANGED <<address, error, solBalance, solPrice, solChange, tokens,
                   portfolioValue, portfolioChange, rawTxs, analyzed,
                   requests, harnessVars>>

\* what the component renders: lines 126-148 return early on loading and on
\* error, the dashboard of lines 150-420 shows the rest of the state
Render ==
    IF loading THEN [view |-> "spinner"]
    ELSE IF error # "" THEN [view |-> "error", message |-> error]
    ELSE [view |-> "dashboard", address |-> address,
          solBalance |-> solBalance, solPrice |-> solPrice,
          solChange |-> solChange, tokens |-> tokens,
          portfolioValue |-> portfolioValue,
          portfolioChange |-> portfolioChange,
          activityAnalysis |-> activityAnalysis,
          transactions |-> transactions]

Next ==
    \/ \E a \in Addresses : Start(a)
    \/ \E p \in PriceOutcomes : PriceResolved(p)
    \/ \E l \in BalanceOutcomes : BalanceResolved(l)
    \/ BalanceFailed
    \/ \E env \in TokenEnvs : TokensSettled(env)
    \/ \E h \in Histories : TransactionsSettled(h)
    \/ \E o \in AdapterOutcomes : AnalysisResolved(o)

Spec == Init /\ [][Next]_vars

\* The steps the code itself guarantees to happen. The effect runs once the
\* component is mounted; PriceManager.fetchWithTimeout aborts each provider
\* request after 5000 ms and HeliusAPI.fetchWithTimeout aborts the history
\* request after 10000 ms, so those two awaits always settle. The awaits on
\* connection.getBalance, connection.getParsedTokenAccountsByOwner and
\* openai.chat.completions.create carry no timer of the program's: they
\* settle only if the service answers.
TimeBoxed ==
    /\ WF_vars(\E a \in Addresses : Start(a))
    /\ WF_vars(\E p \in PriceOutcomes : PriceResolved(p))
    /\ WF_vars(\E h \in Histories : TransactionsSettled(h))

SpecFair == Init /\ [][Next]_vars /\ TimeBoxed

----------------------------------------------------------------------------
(* overlapping page loads: the effect of lines 60-113 runs again whenever
   the address changes, and no load is cancelled or marked stale *)

\* the number of loads started at most
MaxLoads == 2

RaceAddresses == {Wallet, Peer, "not-a-key"}

\* what the services answer for each address: all fetches of Wallet
\* succeed, the transaction fetch of Peer fails
BalanceOf == (Wallet :> 2000000000) @@ (Peer :> 1000000000)
HeldOf == (Wallet :> <<Holding("M1ntA", 5)>>) @@ (Peer :> <<>>)
HistoryOf ==
    (Wallet :> [ok |-> TRUE,
                txs |-> <<[BaseTx EXCEPT !.nativeTransfers = GoodNative]>>]) @@
    (Peer :> [ok |-> FALSE, txs |-> <<>>])

\* the price the i-th call of getSolanaPrice resolves to
PriceAtLoad(i) ==
    IF i % 2 = 1 THEN [price |-> 150, change24h |-> 2]
    ELSE [price |-> 100, change24h |-> 0]

\* the locals of one fetchWalletData call
NewLoad(a, at) ==
    [address |-> a, pc |-> at, currentSolPrice |-> 0, change24h |-> 0,
     balance |-> RatZero, tokenAccounts |-> <<>>, txs |-> <<>>]

InitRace ==
    /\ PageIdle /\ OtherIdle
    /\ tx = NullValue /\ FunIdle /\ BatchIdle /\ PriceIdle

\* the catch block of lines 104-109 run by load i
RaceFail(i, message) ==
    /\ error' = message
    /\ loading' = FALSE
    /\ analyzingTransactions' = FALSE
    /\ loads' = [loads EXCEPT ![i].pc = "failed"]

raceFrame == <<pc, rawTxs, analyzed, requests, adapterOutcome, tx, funVars,
               batchVars, priceVars, loggerVars, homeVars>>

\* the route parameter changes: the effect runs fetchWalletData up to its
\* first await (lines 62-77)
Navigate(a) ==
    /\ Len(loads) < MaxLoads
    /\ a # address
    /\ address' = a
    /\ IF a \in ValidAddresses
       THEN /\ loading' = TRUE /\ error' = "" /\ analyzingTransactions' = TRUE
            /\ loads' = Append(loads, NewLoad(a, "price"))
       ELSE /\ error' = "Invalid wallet address"
            /\ loading' = FALSE /\ analyzingTransactions' = FALSE
            /\ loads' = Append(loads, NewLoad(a, "failed"))
    /\ UNCHANGED <<solBalance, solPrice, solChange, tokens, transactions,
                   portfolioValue, portfolioChange, activityAnalysis,
                   raceFrame>>

\* load i resumes after getSolanaPrice: lines 77-82
RacePrice(i) ==
    /\ loads[i].pc = "price"
    /\ LET p == PriceAtLoad(i)
       IN /\ solPrice' = p.price /\ solChange' = p.change24h
          /\ loads' = [loads EXCEPT ![i].pc = "balance",
                                     ![i].currentSolPrice = p.price,
                                     ![i].change24h = p.change24h]
    /\ UNCHANGED <<address, loading, error, analyzingTransactions, solBalance,
                   tokens, transactions, portfolioValue, portfolioChange,
                   activityAnalysis, raceFrame>>

\* load i resumes after getBalance: lines 82-86
RaceBalance(i) ==
    /\ loads[i].pc = "balance"
    /\ LET balance == Rat(BalanceOf[loads[i].address], LAMPORTS_PER_SOL)
       IN /\ solBalance' = balance
          /\ loads' = [loads EXCEPT ![i].pc = "tokens", ![i].balance = balance]
    /\ UNCHANGED <<address, loading, error, analyzingTransactions, solPrice,
                   solChange, tokens, transactions, portfolioValue,
                   portfolioChange, activityAnalysis, raceFrame>>

\* load i resumes after getTokenAccounts: lines 86-97
RaceTokens(i) ==
    /\ loads[i].pc = "tokens"
    /\ LET got == GetTokenAccounts([held |-> HeldOf[loads[i].address],
                                    parsedOk |-> TRUE, meta1Ok |-> TRUE,
                                    rawOk |-> TRUE, meta2Ok |-> TRUE]).value
       IN /\ tokens' = got
          /\ portfolioValue' = TotalValue(loads[i].balance,
                                          loads[i].currentSolPrice, got)
          /\ portfolioChange' = loads[i].change24h
          /\ loads' = [loads EXCEPT ![i].pc = "txs", ![i].tokenAccounts = got]
    /\ UNCHANGED <<address, loading, error, analyzingTransactions, solPrice,
                   solChange, solBalance, transactions, activityAnalysis,
                   raceFrame>>

\* load i resumes after getTransactions: lines 97-98
RaceTransactions(i) ==
    /\ loads[i].pc = "txs"
    /\ LET txs == GetTransactions(HistoryOf[loads[i].address],
                                  loads[i].address, Now)
       IN IF txs = Threw
          THEN RaceFail(i, "Failed to fetch transactions")
          ELSE /\ loads' = [loads EXCEPT ![i].pc = "analyze",
                                          ![i].txs = txs.value]
               /\ UNCHANGED <<loading, error, analyzingTransactions>>
    /\ UNCHANGED <<address, solPrice, solChange, solBalance, tokens,
                   transactions, portfolioValue, portfolioChange,
                   activityAnalysis, raceFrame>>

\* load i resumes after analyzeBatch: lines 98-103
RaceAnalysis(i) ==
    /\ loads[i].pc = "analyze"
    /\ activityAnalysis' = AnalyzeBatch(loads[i].txs, "text").text
    /\ transactions' = loads[i].txs
    /\ loading' = FALSE
    /\ analyzingTransactions' = FALSE
    /\ loads' = [loads EXCEPT ![i].pc = "done"]
    /\ UNCHANGED <<address, error, solPrice, solChange, solBalance, tokens,
                   portfolioValue, portfolioChange, raceFrame>>

NextRace ==
    \/ \E a \in RaceAddresses : Navigate(a)
    \/ \E i \in 1..Len(loads) : RacePrice(i)
    \/ \E i \in 1..Len(loads) : RaceBalance(i)
    \/ \E i \in 1..Len(loads) : RaceTokens(i)
    \/ \E i \in 1..Len(loads) : RaceTransactions(i)
    \/ \E i \in 1..Len(loads) : RaceAnalysis(i)

SpecRace == InitRace /\ [][NextRace]_vars

----------------------------------------------------------------------------
(* Logger *)

\* maxLogs = 1000
maxLogs == 1000

\* log() calls explored beyond the capacity of the buffer
MaxOverflow == 2

\* log() calls explored after a clearLogs()
MaxAfterClear == 2

\* clearLogs() calls explored
MaxClears == 1

\* log() calls explored per caller's object in SpecRedact
MaxRedacted == 1

LogLevels == {"debug", "info", "warn", "error"}

\* values a caller passes as data: a string, or an object with members
Str(s) == [str |-> s]
Obj(members) == [obj |-> members]
IsObject(v) == "obj" \in DOMAIN v

\* `data ?` / `!data`: undefined and '' are falsy, objects are truthy
TruthyData(v) == v # Undefined /\ v # Str("")

\* sensitiveKeys, line 56
sensitiveKeys == {"privateKey", "secret", "password", "apiKey"}

Redacted == Str("[REDACTED]")

\* sanitizeData(data), lines 52-69: what it returns, and the caller's
\* object afterwards (the writes go to the spread copy of line 59)
sanitizeData(data) ==
    IF ~TruthyData(data) THEN [sanitized |-> data, data |-> data]
    ELSE IF IsObject(data)
    THEN [sanitized |->
              Obj([key \in DOMAIN data.obj |->
                      IF key \in sensitiveKeys THEN Redacted
                      ELSE data.obj[key]]),
          data |-> data]
    ELSE [sanitized |-> data, data |-> data]

\* push without the shift of lines 33-35
PushKeepAll(list, entry) == Append(list, entry)

\* lines 32-35: push, then shift when the buffer is over maxLogs
Push(list, entry) ==
    LET pushed == Append(list, entry)
    IN IF Len(pushed) > maxLogs THEN Tail(pushed) ELSE pushed

\* log(level, message, data), lines 24-35; the n-th call's entry carries n
\* for its ISO time
Log(level) ==
    /\ calls < maxLogs + MaxOverflow
    /\ clears > 0 => Len(logs) < MaxAfterClear
    /\ LET cleaned == sanitizeData(context)
           entry == [timestamp |-> calls + 1, level |-> level,
                     message |-> "message",
                     data |-> IF TruthyData(context) THEN cleaned.sanitized
                              ELSE Undefined]
       IN /\ logs' = Push(logs, entry)
          /\ context' = IF TruthyData(context) THEN cleaned.data ELSE context
    /\ calls' = calls + 1
    /\ UNCHANGED <<clears, tx, funVars, batchVars, priceVars, pageVars, loads,
                   homeVars>>

\* clearLogs(), lines 95-97
ClearLogs ==
    /\ clears < MaxClears
    /\ logs' = <<>>
    /\ clears' = clears + 1
    /\ UNCHANGED <<calls, context, tx, funVars, batchVars, priceVars,
                   pageVars, loads, homeVars>>

InitLog ==
    /\ HarnessIdle /\ PageIdle /\ OtherIdle

NextLog == Log("info") \/ ClearLogs

SpecLog == InitLog /\ [][NextLog]_vars

\* the objects callers hand to the logger
ContextKeys == {"wallet", "password", "apiKey"}
FlatContexts ==
    {Obj([key \in keys |-> Str("s3cret")]) : keys \in (SUBSET ContextKeys) \ {{}}}
Contexts ==
    {Undefined, Str("text")} \cup FlatContexts
    \cup {Obj("request" :> inner) : inner \in FlatContexts}
    \cup {Obj(("apiKey" :> Str("s3cret")) @@ ("request" :> inner)) :
              inner \in FlatContexts}
    \cup {Obj("outer" :> Obj("request" :> inner)) : inner \in FlatContexts}

InitRedact ==
    /\ HarnessIdle /\ PageIdle /\ loads = <<>> /\ HomeIdle
    /\ LogsIdle /\ context \in Contexts

NextRedact == \E level \in LogLevels : calls < MaxRedacted /\ Log(level)

SpecRedact == InitRedact /\ [][NextRedact]_vars

----------------------------------------------------------------------------
(* Home: the crypto cards *)

\* fetchPrices calls in flight at once
MaxFetches == 1

\* generateAnalysis calls in flight at once, per card
MaxAnalyses == 1

\* bodies the price endpoint can return: every coin, or bitcoin alone
\* with a 24h change of 0
PriceFeeds ==
    {("bitcoin" :> [usd |-> 68000, usd_24h_change |-> 310]) @@
     ("ethereum" :> [usd |-> 3900, usd_24h_change |-> -120]) @@
     ("solana" :> [usd |-> 130, usd_24h_change |-> 95]),
     ("bitcoin" :> [usd |-> 66000, usd_24h_change |-> 0])}

\* { ...p, <members> }
Spread(p, members) == members @@ p

\* !p.analysis, p.analysis absent or ''
NoAnalysis(p) == ~Has(p, "analysis") \/ p.analysis = ""

\* lines 163-170: the cards computed from the list the closure holds
UpdatedPrices(closure, data) ==
    [i \in 1..Len(closure) |->
        LET crypto == closure[i]
            coinId == crypto.coingeckoId
            known == coinId \in DOMAIN data
        IN Spread(crypto,
                  [price |-> IF known /\ data[coinId].usd # 0
                             THEN data[coinId].usd ELSE crypto.price,
                   change |-> IF known /\ data[coinId].usd_24h_change # 0
                              THEN data[coinId].usd_24h_change
                              ELSE crypto.change])]

\* the updater of lines 133-142
Clicked(prices, symbol) ==
    [i \in 1..Len(prices) |->
        LET p == prices[i]
        IN IF p.symbol = symbol
           THEN IF ~p.expanded /\ NoAnalysis(p)
                THEN Spread(p, [expanded |-> TRUE, loading |-> TRUE])
                ELSE Spread(p, [expanded |-> ~p.expanded])
           ELSE Spread(p, [expanded |-> FALSE])]

\* the updater of lines 147-149
WithAnalysis(prices, symbol, analysis) ==
    [i \in 1..Len(prices) |->
        IF prices[i].symbol = symbol
        THEN Spread(prices[i], [analysis |-> analysis, loading |-> FALSE])
        ELSE prices[i]]

\* cryptoPrices.find(p => p.symbol === symbol)
Find(prices, symbol) ==
    prices[CHOOSE i \in 1..Len(prices) : prices[i].symbol = symbol]

\* what generateAnalysis resolves to, lines 97-130
GenerateAnalysis(symbol, outcome) ==
    IF outcome = "text" THEN "Market analysis"
    ELSE "Analysis unavailable at this time."

homeFrame == <<tx, funVars, batchVars, priceVars, pageVars, loads, loggerVars>>

\* fetchPrices is called, at mount and by the 30000 ms interval
RefreshTick ==
    /\ priceFetches < MaxFetches
    /\ priceFetches' = priceFetches + 1
    /\ UNCHANGED <<cryptoPrices, analysisCalls, homeFrame>>

\* the price response arrived: lines 159-172. The effect has no
\* dependencies, so the cryptoPrices of fetchPrices is the list of the
\* first render
PricesArrived(data) ==
    /\ priceFetches > 0
    /\ priceFetches' = priceFetches - 1
    /\ cryptoPrices' = UpdatedPrices(initialCryptoData, data)
    /\ UNCHANGED <<analysisCalls, homeFrame>>

\* the price request failed: the catch of lines 173-175
PricesFailed ==
    /\ priceFetches > 0
    /\ priceFetches' = priceFetches - 1
    /\ UNCHANGED <<cryptoPrices, analysisCalls, homeFrame>>

\* handleCardClick(symbol) up to its await, lines 132-146
HandleCardClick(symbol) ==
    /\ LET crypto == Find(cryptoPrices, symbol)
       IN IF NoAnalysis(crypto)
          THEN /\ analysisCalls[symbol] < MaxAnalyses
               /\ analysisCalls' =
                      [analysisCalls EXCEPT ![symbol] = @ + 1]
          ELSE UNCHANGED analysisCalls
    /\ cryptoPrices' = Clicked(cryptoPrices, symbol)
    /\ UNCHANGED <<priceFetches, homeFrame>>

\* generateAnalysis settled: lines 146-150
AnalysisArrived(symbol, outcome) ==
    /\ analysisCalls[symbol] > 0
    /\ analysisCalls' = [analysisCalls EXCEPT ![symbol] = @ - 1]
    /\ cryptoPrices' =
          WithAnalysis(cryptoPrices, symbol, GenerateAnalysis(symbol, outcome))
    /\ UNCHANGED <<priceFetches, homeFrame>>

InitHome == HarnessIdle /\ PageIdle /\ OtherIdle

NextHome ==
    \/ RefreshTick
    \/ \E data \in PriceFeeds : PricesArrived(data)
    \/ PricesFailed
    \/ \E symbol \in Symbols : HandleCardClick(symbol)
    \/ \E symbol \in Symbols, outcome \in {"text", "throws"} :
          AnalysisArrived(symbol, outcome)

SpecHome == InitHome /\ [][NextHome]_vars

----------------------------------------------------------------------------
(* claims about the page load, under Spec *)

\* the load got as far as handing a list to the Trade Classifier
Handed == pc \in {"analyze", "done"}

\* C1: on load the Trade Classifier is run over all the raw records the
\* Raw Transaction Source delivered, the ones the Normalizer drops
\* included, and not over the normalized feed.
C1_ClassifierSeesRawRecords ==
    Handed => analyzed = rawTxs

RECURSIVE MarketValue(_)
\* sum of token amount x token price, a token without a price counting 0
MarketValue(accounts) ==
    IF Len(accounts) = 0 THEN RatZero
    ELSE RatAdd(RatMul(RatInt(Head(accounts).amount),
                       RatInt(IF Head(accounts).mint \in DOMAIN MarketPrice
                              THEN MarketPrice[Head(accounts).mint] ELSE 0)),
                MarketValue(Tail(accounts)))

\* C2: the portfolio total is balance x price plus, over the held tokens,
\* amount x token price (0 for a token whose price is unknown).
C2_PortfolioIncludesTokens ==
    pc \in {"txs", "analyze", "done"} =>
        portfolioValue = RatAdd(RatMul(solBalance, RatInt(solPrice)),
                                MarketValue(tokens))

SortedDescending(s) ==
    \A i \in 1..(Len(s) - 1) : s[i].timestamp >= s[i + 1].timestamp

\* C8: the list getTransactions returns is sorted by timestamp, newest
\* first: no record is followed by one with a larger timestamp.
C8_SortedDescending ==
    /\ Handed => SortedDescending(analyzed)
    /\ pc = "done" => SortedDescending(transactions)

\* C8 witness: two retained records delivered oldest first come out
\* newest first
C8_Witness ==
    /\ pc = "done"
    /\ Len(rawTxs) = 2 /\ Len(transactions) = 2
    /\ rawTxs[1].timestamp < rawTxs[2].timestamp
    /\ transactions[1].signature = rawTxs[2].signature
    /\ transactions[2].signature = rawTxs[1].signature

\* C15: an address that is no valid wallet address is rejected with
\* 'Invalid wallet address' before any fetch: no price, balance, token
\* account, transaction or summarization request is issued in that load.
C15_InvalidAddressRejected ==
    (pc # "idle" /\ address \notin ValidAddresses) =>
        /\ pc = "failed"
        /\ error = "Invalid wallet address"
        /\ requests = <<>>

\* C15 witness: the load of an invalid address has ended
C15_Witness ==
    pc = "failed" /\ address = "not-a-key" /\ Render.view = "error"

FetchFailures ==
    {"Failed to fetch balance", "Failed to fetch token accounts",
     "Failed to fetch transactions"}

\* the load ended because a fetch failed: the step it stopped at is the
\* last request issued
FetchFailed ==
    /\ pc = "failed"
    /\ Len(requests) > 0
    /\ requests[Len(requests)] \in {"balance", "tokenAccounts", "transactions"}

\* C16: when the balance, token account or transaction fetch fails, the
\* load ends with error set and loading false, and the page renders the
\* error view only: nothing fetched before the failure is displayed.
C16_FetchFailureShowsErrorOnly ==
    FetchFailed =>
        /\ error \in FetchFailures
        /\ loading = FALSE
        /\ Render = [view |-> "error", message |-> error]

\* C16 witness: the transaction fetch failed after tokens were fetched
C16_Witness ==
    /\ FetchFailed
    /\ error = "Failed to fetch transactions"
    /\ Len(tokens) > 0 /\ solBalance # RatZero

\* C17: a Summarization Adapter failure during the load is recovered
\* locally: the load completes with error null, the portfolio and the feed
\* are displayed and the activity analysis is the fixed fallback string.
C17_AdapterFailureRecovered ==
    (adapterOutcome = "throws") =>
        /\ pc = "done"
        /\ error = "" /\ loading = FALSE
        /\ Render.view = "dashboard"
        /\ Render.transactions = analyzed
        /\ Render.portfolioValue = TotalValue(solBalance, solPrice, tokens)
        /\ activityAnalysis = "Batch analysis unavailable"

\* C17 witness: a load with a non-empty feed whose adapter call threw
C17_Witness ==
    /\ pc = "done" /\ adapterOutcome = "throws"
    /\ Len(transactions) > 0
    /\ activityAnalysis = "Batch analysis unavailable"

\* every load started has ended, and there was more than one
BothSettled ==
    /\ Len(loads) >= 2
    /\ \A i \in 1..Len(loads) : loads[i].pc \in {"done", "failed"}

\* what the load for the latest address alone leaves on the page
LatestAlone ==
    LET latest == loads[Len(loads)]
    IN IF latest.address \notin ValidAddresses
       THEN [view |-> "error", message |-> "Invalid wallet address"]
       ELSE IF latest.pc = "failed"
       THEN [view |-> "error", message |-> "Failed to fetch transactions"]
       ELSE [view |-> "dashboard", address |-> latest.address,
             solBalance |-> latest.balance,
             solPrice |-> latest.currentSolPrice,
             solChange |-> latest.change24h,
             tokens |-> latest.tokenAccounts,
             portfolioValue |-> TotalValue(latest.balance,
                                           latest.currentSolPrice,
                                           latest.tokenAccounts),
             portfolioChange |-> latest.change24h,
             activityAnalysis |-> AdapterText,
             transactions |-> latest.txs]

\* C23: late results are ignored: when the address changes while a load is
\* in flight, the older load's results are never applied afterwards; once
\* both loads have settled the page shows the price, balance, tokens,
\* transactions, analysis and error of the load for the latest address.
C23_LateResultsIgnored ==
    BothSettled => Render = LatestAlone

\* C24: a page load never blocks indefinitely: once the load has started,
\* loading eventually becomes false, even if a service never responds.
C24_LoadEventuallySettles == (pc # "idle") ~> (loading = FALSE)

\* the metadata lookup fails whenever it is made, the RPC node answers
MetadataDown(env) ==
    env.parsedOk /\ env.rawOk /\ ~env.meta1Ok /\ ~env.meta2Ok

\* every positive-balance account, labelled as an unknown token
UnknownLabelled(held) ==
    LET accounts == PositiveAccounts(held)
    IN [i \in 1..Len(accounts) |->
           accounts[i] @@ [symbol |-> "Unknown", name |-> "Unknown Token"]]

\* C27: when the token metadata lookup fails, getTokenAccounts still
\* returns every positive-balance account, with symbol 'Unknown' and name
\* 'Unknown Token', instead of failing.
C27_MetadataFailureTolerated ==
    [][\A env \in TokenEnvs :
          (TokensSettled(env) /\ MetadataDown(env)) =>
              /\ pc' = "txs"
              /\ tokens' = UnknownLabelled(env.held)]_vars

----------------------------------------------------------------------------
(* claims about the Transaction Normalizer, under SpecNorm *)

WellFormed(t) == t \in WellFormedNorm
HasNative(t) == Length(List(t, "nativeTransfers")) > 0
HasToken(t) == Length(List(t, "tokenTransfers")) > 0
FirstNativeOf(t) == t.nativeTransfers.items[1]
FirstTokenOf(t) == t.tokenTransfers.items[1]
IsRecord(out) == Has(out, "signature")
Normalized == normOut # Pending

\* the lower-cased serialization holds one of the three swap keywords
SerializedHasSwapWord(t) ==
    \E k \in {"swap", "jupiter", "orca"} :
        Includes(ToLowerCase(JSONStringify(t)), k)

\* the case C3 is about: native transfers only, no swap keyword, first
\* transfer of at least 0.001 SOL (1,000,000 lamports)
NativeOnlyCase(t) ==
    /\ WellFormed(t) /\ HasNative(t) /\ ~HasToken(t)
    /\ ~SerializedHasSwapWord(t)
    /\ FirstNativeOf(t).amount >= 1000000

OnlyFirstNative(t) ==
    [t EXCEPT !.nativeTransfers = Array(<<FirstNativeOf(t)>>)]

\* C3: a transaction with native transfers only, no swap keyword and a
\* first native transfer at or above the dust threshold is normalized to
\* amount = first amount / 1e9 and symbol SOL, with type 'Send SOL' and
\* 'Sent <amount to 3 decimals> SOL' when the first transfer leaves the
\* wallet, else 'Receive SOL' and 'Received ... SOL' when it reaches the
\* wallet; the transfers after the first do not change the result.
C3_FirstNativeTransfer ==
    (Normalized /\ NativeOnlyCase(tx)) =>
        LET f == FirstNativeOf(tx)
            shown == ToFixed3(Rat(f.amount, 1000000000))
        IN /\ IsRecord(normOut)
           /\ normOut.amount = Rat(f.amount, 1000000000)
           /\ normOut.tokenSymbol = "SOL"
           /\ f.fromUserAccount = Wallet =>
                 /\ normOut.type = "Send SOL"
                 /\ normOut.description = "Sent " \o shown \o " SOL"
           /\ (f.fromUserAccount # Wallet /\ f.toUserAccount = Wallet) =>
                 /\ normOut.type = "Receive SOL"
                 /\ normOut.description = "Received " \o shown \o " SOL"
           /\ normOut = ProcessTransaction(OnlyFirstNative(tx), Wallet, Now)

\* C3 witness: Scenario A with a second, incoming dust transfer behind it
C3_Witness ==
    /\ Normalized /\ NativeOnlyCase(tx)
    /\ Len(tx.nativeTransfers.items) = 2
    /\ FirstNativeOf(tx) = NativeTransfer(Wallet, Peer, 2000000000)
    /\ tx.nativeTransfers.items[2] = NativeTransfer(Peer, Wallet, 500000)
    /\ normOut.type = "Send SOL"
    /\ normOut.amount = RatInt(2)
    /\ normOut.description = "Sent 2.000 SOL"

\* the amount steps 2-3 resolve, read off the input: the first token
\* transfer's amount if there is one, else the first native transfer's
ResolvedZero(t) ==
    IF HasToken(t) THEN FirstTokenOf(t).amount = 0
    ELSE IF HasNative(t) THEN FirstNativeOf(t).amount = 0
    ELSE TRUE

NativeOnlyDust(t) ==
    HasNative(t) /\ ~HasToken(t) /\ FirstNativeOf(t).amount < 1000000

\* C4: every record normalize returns has a non-zero amount, and an amount
\* of at least 0.001 when its symbol is SOL; normalize returns null for
\* every transaction whose resolved amount is 0 and for every native-only
\* transaction whose first transfer is below 0.001 SOL.
C4_DustAndZeroDropped ==
    (Normalized /\ WellFormed(tx)) =>
        /\ IsRecord(normOut) =>
              /\ normOut.amount.num # 0
              /\ normOut.tokenSymbol = "SOL" =>
                    normOut.amount.num * 1000 >= normOut.amount.den
        /\ ResolvedZero(tx) => normOut = NullValue
        /\ NativeOnlyDust(tx) => normOut = NullValue

\* C4 witness: Scenario B, 500,000 lamports sent by the wallet, dropped
C4_Witness ==
    /\ Normalized /\ WellFormed(tx) /\ NativeOnlyDust(tx)
    /\ FirstNativeOf(tx) = NativeTransfer(Wallet, Peer, 500000)
    /\ normOut = NullValue

\* the record the harness batch's older, well-formed member normalizes to
CompanionRecord ==
    [signature |-> "5igB", type |-> "Send SOL", amount |-> RatInt(2),
     timestamp |-> 20, status |-> "success", tokenSymbol |-> "SOL",
     fee |-> 5000, description |-> "Sent 2.000 SOL"]

\* C5: normalize never raises: for any input, malformed ones included, it
\* returns a record or null, so a bad record does not abort the batch in
\* getTransactions: the other record is still normalized and returned.
C5_NormalizeNeverRaises ==
    /\ Normalized => (normOut = NullValue \/ IsRecord(normOut))
    /\ feedOut # Pending =>
          /\ feedOut # Threw
          /\ \E i \in 1..Len(feedOut.value) : feedOut.value[i] = CompanionRecord
          /\ ProcessThrows(tx) => feedOut.value = <<CompanionRecord>>

\* C5 witness: a batch whose second record has a null first native transfer
C5_Witness ==
    /\ tx = [BaseTx EXCEPT !.nativeTransfers = Array(<<NullValue>>)]
    /\ normOut = NullValue
    /\ feedOut # Pending /\ feedOut # Threw
    /\ feedOut.value = <<CompanionRecord>>

\* C6: a transaction whose lower-cased serialization contains 'swap',
\* 'jupiter' or 'orca', and that normalize does not drop, is normalized to
\* type 'Swap' with description 'Token Swap', whatever its transfers.
C6_SwapKeywordOverrides ==
    (Normalized /\ IsRecord(normOut) /\ SerializedHasSwapWord(tx)) =>
        /\ normOut.type = "Swap"
        /\ normOut.description = "Token Swap"

\* C6 witness: the keyword only appears after lower-casing (type SWAP) and
\* the first transfers leave the wallet
C6_Witness ==
    /\ Normalized /\ IsRecord(normOut)
    /\ Text(tx, "type") = "SWAP"
    /\ HasNative(tx) /\ HasToken(tx)
    /\ FirstTokenOf(tx).fromUserAccount = Wallet
    /\ normOut.type = "Swap" /\ normOut.description = "Token Swap"

\* C7: every record normalize returns has a strictly positive amount.
C7_PositiveAmount ==
    (Normalized /\ IsRecord(normOut)) => normOut.amount.num > 0

\* C19: when a raw transaction has a native transfer the token step is
\* skipped: amount, symbol SOL, type and description are those of the first
\* native transfer, whatever token transfers it also carries (no swap
\* keyword); a first native transfer below the dust threshold gives null.
C19_NativeSkipsTokenStep ==
    (Normalized /\ WellFormed(tx) /\ HasNative(tx)
       /\ (HasToken(tx) => FirstTokenOf(tx).amount > 0)
       /\ ~SerializedHasSwapWord(tx)) =>
        IF FirstNativeOf(tx).amount < 1000000 THEN normOut = NullValue
        ELSE /\ IsRecord(normOut)
             /\ normOut.tokenSymbol = "SOL"
             /\ normOut.amount = Rat(FirstNativeOf(tx).amount, 1000000000)
             /\ normOut.type \in {"Send SOL", "Receive SOL", "Unknown", "TRANSFER"}

\* C22: the type of every NormalizedTransaction is one of the six kinds
\* Send SOL, Receive SOL, Send Token, Receive Token, Swap, Unknown, also
\* when the wallet is neither source nor destination of the first transfer.
C22_TypeIsEnumerated ==
    (Normalized /\ IsRecord(normOut)) =>
        normOut.type \in {"Send SOL", "Receive SOL", "Send Token",
                          "Receive Token", "Swap", "Unknown"}

----------------------------------------------------------------------------
(* claims about the Trade Classifier, under SpecTrade *)

\* the serialization holds one of the twelve trade keywords
SerializedHasTradeWord(t) ==
    \E k \in {"swap", "trade", "exchange", "jupiter", "orca", "raydium",
              "serum", "dex", "amm", "liquidity", "pool", "market"} :
        Includes(ToLowerCase(JSONStringify(t)), k)

\* an accountData entry shows a nonzero native balance change or a nonzero
\* token balance change
NonzeroChange(a) ==
    \/ Num(a, "nativeBalanceChange") # 0
    \/ \E i \in 1..Len(List(a, "tokenBalanceChanges").items) :
          a.tokenBalanceChanges.items[i].amount # 0

ClaimedTrade(t) ==
    /\ ~IsNull(t)
    /\ \/ SerializedHasTradeWord(t)
       \/ /\ HasNative(t) \/ HasToken(t)
          /\ \E i \in 1..Len(List(t, "accountData").items) :
                NonzeroChange(t.accountData.items[i])

TypedInput(t) == t \in IsTradeFamily \cup ClassifyFamily \cup {NullValue}

\* C9: isTrade(raw) is true exactly when the lower-cased serialization
\* holds a trade keyword, or raw has a native or token transfer and some
\* accountData entry shows a nonzero native or nonzero token balance
\* change; otherwise, a null record included, it is not.
C9_IsTradeExactly ==
    (tradeOut # Pending /\ TypedInput(tx)) =>
        (Truthy(tradeOut) <=> ClaimedTrade(tx))

\* C10: classify is total: for every raw transaction, null and malformed
\* records included, it returns one of buy, sell, unknown and never throws.
C10_ClassifyTotal ==
    classOut # Pending =>
        /\ classOut # Threw
        /\ classOut.kind \in {"buy", "sell", "unknown"}

\* the inputs C11 and C12 are read on: well-formed records and null
ValueInput(t) == t \in ValueFamily \cup {NullValue}

NothingToValue(t) ==
    \/ IsNull(t)
    \/ /\ ~HasNative(t) /\ ~HasToken(t)
       /\ Length(List(t, "accountData")) = 0

\* C11: estimateValue (calculateTradeValue) is non-negative for every raw
\* transaction, negative transfer amounts or balance deltas included, and
\* is exactly 0 when the record is null or the transfer lists and the
\* balance-change list are all empty.
C11_ValueNonNegative ==
    (valueOut # Pending /\ ValueInput(tx)) =>
        /\ valueOut # Threw
        /\ valueOut.value >= 0
        /\ NothingToValue(tx) => valueOut.value = 0

RECURSIVE AbsTransferSum(_)
\* the sum of the absolute amounts of a list of transfers or token changes
AbsTransferSum(items) ==
    IF Len(items) = 0 THEN 0
    ELSE Abs(Head(items).amount) + AbsTransferSum(Tail(items))

RECURSIVE AbsDeltaSum(_)
\* over the accountData entries: |native delta| + each |token delta|
AbsDeltaSum(entries) ==
    IF Len(entries) = 0 THEN 0
    ELSE Abs(Head(entries).nativeBalanceChange)
         + AbsTransferSum(Head(entries).tokenBalanceChanges.items)
         + AbsDeltaSum(Tail(entries))

\* C12: estimateValue equals max(T, B): T the sum of the absolute native
\* transfer amounts plus the absolute token transfer amounts, B the sum
\* over the accountData entries of the absolute native balance delta plus
\* the absolute value of each token balance delta.
C12_ValueIsMaxOfMagnitudes ==
    (valueOut # Pending /\ tx \in ValueFamily) =>
        /\ valueOut # Threw
        /\ valueOut.value =
              Max(AbsTransferSum(List(tx, "nativeTransfers").items)
                    + AbsTransferSum(List(tx, "tokenTransfers").items),
                  AbsDeltaSum(List(tx, "accountData").items))

RECURSIVE OutgoingTotal(_, _)
\* the total of the transfers whose source is the given account
OutgoingTotal(items, account) ==
    IF Len(items) = 0 THEN 0
    ELSE (IF account # "" /\ Head(items).fromUserAccount = account
          THEN Head(items).amount ELSE 0)
         + OutgoingTotal(Tail(items), account)

TypeHas(t, words) ==
    \E w \in words : Includes(ToLowerCase(Text(t, "type")), w)
BodyHas(t, words) ==
    \E w \in words : Includes(ToLowerCase(JSONStringify(t)), w)

\* the first rule of C20 that matches: its number, 7 when none does
FirstRule(t) ==
    IF TypeHas(t, {"buy", "swap_in"}) THEN 1
    ELSE IF TypeHas(t, {"sell", "swap_out"}) THEN 2
    ELSE IF OutgoingTotal(List(t, "nativeTransfers").items, Text(t, "source")) > 0
    THEN 3
    ELSE IF OutgoingTotal(List(t, "tokenTransfers").items, Text(t, "source")) > 0
    THEN 4
    ELSE IF BodyHas(t, {"swap_exact_tokens_for_tokens", "swap_exact_sol_for_tokens"})
    THEN 5
    ELSE IF BodyHas(t, {"swap_exact_tokens_for_sol", "swap_tokens_for_exact_sol"})
    THEN 6
    ELSE 7

\* C20: classify applies its rules in a fixed precedence, the first match
\* deciding: type hint buy / swap_in, type hint sell / swap_out, positive
\* outgoing native total from the source (buy), positive outgoing token
\* total from the source (sell), a buy instruction name in the body, a sell
\* instruction name, else unknown.
C20_ClassifyPrecedence ==
    (classOut # Pending /\ tx \in ClassifyFamily) =>
        /\ classOut # Threw
        /\ classOut.kind = CASE FirstRule(tx) \in {1, 3, 5} -> "buy"
                              [] FirstRule(tx) \in {2, 4, 6} -> "sell"
                              [] OTHER -> "unknown"

\* C20 witness: outgoing native and outgoing token transfers from the
\* source, no type hint: buy
C20_Witness ==
    /\ tx \in ClassifyFamily
    /\ ~TypeHas(tx, {"buy", "swap_in", "sell", "swap_out"})
    /\ OutgoingTotal(List(tx, "nativeTransfers").items, Text(tx, "source")) > 0
    /\ OutgoingTotal(List(tx, "tokenTransfers").items, Text(tx, "source")) > 0
    /\ classOut = [kind |-> "buy"]

\* every transfer amount of the record is non-negative
NonNegativeTransfers(t) ==
    /\ \A i \in 1..Len(List(t, "nativeTransfers").items) :
          t.nativeTransfers.items[i].amount >= 0
    /\ \A i \in 1..Len(List(t, "tokenTransfers").items) :
          t.tokenTransfers.items[i].amount >= 0

\* C21: estimateValue is a conservative overestimate of balance movement:
\* with non-negative transfer amounts it is at least the sum over the
\* accountData entries of |native delta| + sum of |token deltas|; a negative
\* native delta never cancels against token deltas of the same account.
C21_ValueCoversBalanceMovement ==
    (valueOut # Pending /\ tx \in ValueFamily /\ NonNegativeTransfers(tx)) =>
        /\ valueOut # Threw
        /\ valueOut.value >= AbsDeltaSum(List(tx, "accountData").items)

----------------------------------------------------------------------------
(* claims about analyzeBatch, under SpecBatch *)

\* the records of the batch that are trades
TradesOf(list) == SelectSeq(list, LAMBDA t : Truthy(IsTradeTransaction(t)))

\* a step before the adapter throws on the batch
StepThrows(list) ==
    \/ \E i \in 1..Len(list) : IsTradeTransaction(list[i]) = Threw
    \/ \E i \in 1..Len(TradesOf(list)) :
          \/ ClassifyTradeType(TradesOf(list)[i]) = Threw
          \/ CalculateTradeValue(TradesOf(list)[i]) = Threw

RECURSIVE ValueSum(_)
ValueSum(list) ==
    IF Len(list) = 0 THEN 0
    ELSE CalculateTradeValue(Head(list)).value + ValueSum(Tail(list))

Analyzed == batchOut # Pending /\ batchOut # Threw /\ batchOut.called

\* C13: in analyzeBatch the average trade value is 0 when the batch holds
\* no trade, and the sum of the trades' values divided by their number
\* otherwise; with no trade the prompt's average is the number 0.00.
C13_AverageTradeValue ==
    Analyzed =>
        LET n == Len(TradesOf(batch))
            m == batchOut.metrics
        IN /\ m.totalTrades = n
           /\ n = 0 =>
                 /\ m.averageTradeValue = RatZero
                 /\ AverageLine(m) = "- Average trade value: 0.00 SOL"
           /\ n > 0 => m.averageTradeValue = Rat(ValueSum(TradesOf(batch)), n)

\* C13 witness: a non-empty batch without a trade was analyzed
C13_Witness ==
    /\ Analyzed
    /\ Len(batch) = 2 /\ Len(TradesOf(batch)) = 0
    /\ batchOut.metrics.averageTradeValue = RatZero

\* C14: analyzeBatch never rejects: it resolves to 'Batch analysis
\* unavailable' when the adapter or a step before it throws, to 'Unable to
\* analyze transactions' when the adapter returns empty content, and to
\* the adapter's text otherwise.
C14_NeverPropagates ==
    batchOut # Pending =>
        /\ batchOut # Threw
        /\ (StepThrows(batch) \/ adapterOutcome = "throws") =>
               batchOut.text = "Batch analysis unavailable"
        /\ (~StepThrows(batch) /\ adapterOutcome = "empty") =>
               batchOut.text = "Unable to analyze transactions"
        /\ (~StepThrows(batch) /\ adapterOutcome = "text") =>
               batchOut.text = AdapterText

\* C14 witness: the adapter was called and threw
C14_Witness ==
    /\ batchOut # Pending /\ batchOut # Threw
    /\ Len(batch) > 0 /\ ~StepThrows(batch)
    /\ adapterOutcome = "throws"
    /\ batchOut.text = "Batch analysis unavailable"

----------------------------------------------------------------------------
(* claims about the PriceManager, under SpecPrice *)

\* the last call consulted all three endpoints and none answered
AllProvidersFailed ==
    Len(providers) = Len(ENDPOINTS) /\ \A i \in 1..Len(providers) : ~providers[i]

\* C18: when all three price providers fail getSolanaPrice returns the
\* cached entry, even one older than an hour, and the hardcoded
\* {price: 100, change24h: 0} when there is no entry; it never rejects.
C18_PriceFallback ==
    priceOut # Pending =>
        /\ priceOut # Threw
        /\ AllProvidersFailed =>
              IF priceCache # NullValue
              THEN priceOut = [price |-> priceCache.price,
                               change24h |-> priceCache.change24h]
              ELSE priceOut = [price |-> 100, change24h |-> 0]

\* C18 witness: all three fail while the entry is older than an hour
C18_Witness ==
    /\ AllProvidersFailed
    /\ priceCache # NullValue
    /\ clock - priceCache.timestamp >= CACHE_DURATION
    /\ priceOut.price = priceCache.price

\* a call of getSolanaPrice ran: the clock stood still
PriceCall == clock' = clock

\* the last request of the call got an answer
LastAnswered(answered) == Len(answered) > 0 /\ answered[Len(answered)]

\* the cache entry a successful fetch from endpoint i leaves at time now
EntryFrom(i, now) == EndpointResult[ENDPOINTS[i]] @@ [timestamp |-> now]

\* C25: a call that finds no fresh cache entry asks CoinGecko, Jupiter,
\* Binance in that order, each at most once, a later one only after every
\* earlier one failed (a 429 is a failure and is not asked again); the
\* first answer is returned and cached with the current time and no
\* further provider is asked.
C25_ProvidersInOrder ==
    [][(PriceCall /\ ~Fresh(priceCache, clock)) =>
          /\ Len(contacted') \in 1..Len(ENDPOINTS)
          /\ Len(providers') = Len(contacted')
          /\ \A i \in 1..Len(contacted') :
                /\ contacted'[i].name = ENDPOINTS[i]
                /\ providers'[i] = (contacted'[i].outcome = "ok")
                /\ i < Len(contacted') => ~providers'[i]
          /\ IF LastAnswered(providers')
             THEN /\ priceOut' = EndpointResult[ENDPOINTS[Len(contacted')]]
                  /\ priceCache' = EntryFrom(Len(contacted'), clock)
             ELSE Len(contacted') = Len(ENDPOINTS)]_vars

\* C25 witness: CoinGecko answered 429, Jupiter was asked next and its
\* answer was returned and cached at the current time, Binance not asked
C25_Witness ==
    /\ Len(contacted) = 2
    /\ contacted[1] = [name |-> "CoinGecko", outcome |-> "rateLimited"]
    /\ contacted[2] = [name |-> "Jupiter", outcome |-> "ok"]
    /\ priceOut = EndpointResult["Jupiter"]
    /\ priceCache = EntryFrom(2, clock)
    /\ clock > 0

\* C26: while the entry is younger than an hour a call returns exactly the
\* cached price and change, asks no provider and leaves the entry, its
\* timestamp included, as it was; the hardcoded and expired-entry fallbacks
\* are never written to the cache: the entry changes only by a successful
\* provider fetch, to that provider's answer stamped with the current time.
C26_CacheReadOnlyWhileFresh ==
    [][PriceCall =>
          /\ Fresh(priceCache, clock) =>
                /\ priceOut' = PriceOf(priceCache)
                /\ contacted' = <<>>
                /\ priceCache' = priceCache
          /\ priceCache' # priceCache =>
                /\ LastAnswered(providers')
                /\ priceCache' = EntryFrom(Len(providers'), clock)
                /\ priceOut' = PriceOf(priceCache')]_vars

\* C26 witness: a call half an hour after the entry was stored asked no
\* provider and returned the entry
C26_Witness ==
    /\ priceCache # NullValue
    /\ clock > priceCache.timestamp
    /\ Fresh(priceCache, clock)
    /\ contacted = <<>>
    /\ priceOut = PriceOf(priceCache)

----------------------------------------------------------------------------
(* claims about the Logger, under SpecLog and SpecRedact *)

\* C28: the log buffer is a bounded FIFO ring: it never holds more than
\* 1000 entries; each log call puts its entry last, keeping the earlier
\* ones in call order, and evicts exactly the oldest one when the buffer
\* was full and nothing otherwise; clearLogs empties it.
C28_BoundedFifo ==
    [][/\ Len(logs') <= 1000
       /\ calls' # calls =>
             /\ Len(logs') > 0
             /\ logs'[Len(logs')].timestamp = calls'
             /\ logs' = Append(IF Len(logs) = 1000 THEN Tail(logs) ELSE logs,
                               logs'[Len(logs')])
       /\ clears' # clears => logs' = <<>>]_vars

\* C28 witness: two calls beyond capacity evicted the two oldest entries
C28_Witness ==
    /\ Len(logs) = 1000
    /\ logs[1].timestamp = 3
    /\ logs[Len(logs)].timestamp = 1002

RECURSIVE Leaks(_)
\* some member under a sensitive key, at any depth, is not '[REDACTED]'
Leaks(v) ==
    /\ IsObject(v)
    /\ \E key \in DOMAIN v.obj :
          \/ key \in sensitiveKeys /\ v.obj[key] # Redacted
          \/ Leaks(v.obj[key])

\* C29: no stored log entry holds an unredacted value under a sensitive
\* key (privateKey, secret, password, apiKey), at any nesting depth, and
\* logging leaves the caller's object as it was.
C29_NoSecretStored ==
    [][/\ \A i \in 1..Len(logs') : ~Leaks(logs'[i].data)
       /\ context' = context]_vars

----------------------------------------------------------------------------
(* claims about the Home page, under SpecHome *)

\* a member of a card, << >> when the card has none
Member1(p, key) == IF Has(p, key) THEN <<p[key]>> ELSE <<>>

\* a fetchPrices call settled in this step
RefreshSettled == priceFetches' < priceFetches

\* C30: the periodic price refresh changes only the price and the 24h
\* change of each card: its expanded flag, its loading flag and its
\* generated analysis text are left as they were, whatever clicks and
\* analysis responses came before the refresh.
C30_RefreshKeepsCardState ==
    [][RefreshSettled =>
          /\ Len(cryptoPrices') = Len(cryptoPrices)
          /\ \A i \in 1..Len(cryptoPrices) :
                /\ cryptoPrices'[i].symbol = cryptoPrices[i].symbol
                /\ cryptoPrices'[i].expanded = cryptoPrices[i].expanded
                /\ Member1(cryptoPrices'[i], "loading")
                       = Member1(cryptoPrices[i], "loading")
                /\ Member1(cryptoPrices'[i], "analysis")
                       = Member1(cryptoPrices[i], "analysis")]_vars

====
